---------------------------- MODULE Spec2Model ----------------------------
(***************************************************************************)
(* A model of the tripple-thread store: the ConnectionPool                 *)
(* (utils/ConnectionPool.ts), the DatabaseManager (db/DatabaseManager.ts)  *)
(* and the GraphManager (graph/GraphManager.ts).                           *)
(*                                                                         *)
(* JavaScript runs one task at a time and switches tasks only at an await. *)
(* Every action below is therefore one synchronous segment of one async    *)
(* call: from the point where the call is resumed to its next await (or    *)
(* its return).  A continuation that reads and writes only the locals of   *)
(* its own call is run in the step that settles what it awaits: no other   *)
(* task can tell the difference.  task[p].pc is the stack of suspended     *)
(* frames of caller p, the innermost frame last; task[p].ret is what the   *)
(* awaited callee settled with when the frame resumes in a step of its     *)
(* own, and what the call settled with once the stack is empty.            *)
(***************************************************************************)
EXTENDS Integers, Sequences, FiniteSets, Bags, TLC

\* ------------------------------------------------------------------ bounds

\* Number of callers (async tasks) of a burst of concurrent calls.
NumTasks == 3

\* Number of callers that issue calls of any kind, one after the other.
NumCallers == 2

\* Calls each caller may issue one after the other.
MaxCalls == 2

\* Largest maxPoolSize option tried for a stand-alone pool.
MaxPoolSize == 2

\* Calls the one caller of a pool issues when it is alone.
SerialCalls == 4

\* Largest maxPoolSize option tried for a pool with one caller.
SerialPoolSize == 4

\* Times the sqlite3 engine may report an error in one run.
MaxFaults == 1

\* Calls the one caller of a DatabaseManager issues.
DbCalls == 4

\* Longest batch of triples passed to addTriples.
MaxBatch == 2

\* Calls of the backup round trip: init, addTriple, backup, addTriple,
\* restoreFromBackup, query.
RoundTripCalls == 6

\* Calls of the retention run: init, and eight times backup.
RetentionCalls == 9

\* Calls the caller of a manager with a backup timer issues.
TimerCalls == 3

\* Times the callback of the backup timer is run.
MaxTicks == 2

\* Operations each caller of a WriteQueue enqueues, one after the other.
QueueCalls == 2

\* Calls the caller of a store issues when it marks triples for deletion.
SoftDeleteCalls == 4

\* Calls each of the callers of one manager issues when their calls overlap.
OverlapCalls == 2

\* The capacity the options of a manager ask for, when they give one.
SmallCapacity == 2

Tasks == 1..NumTasks

Callers == 1..NumCallers

\* ------------------------------------------------------- program constants

\* options.maxPoolSize || 10
DefaultMaxConnections == 10

\* Math.min(3, this.maxConnections)
InitialConnections == 3

\* options.backup?.maxBackups ?? 5
DefaultMaxBackups == 5

\* ----------------------------------------------------------------- values

Min(a, b) == IF a < b THEN a ELSE b

Last(s) == s[Len(s)]

Front(s) == SubSeq(s, 1, Len(s) - 1)

Range(s) == {s[i] : i \in 1..Len(s)}

\* An Error object: its class name and its message.  A message is the
\* sequence of the parts that the code joins with ': '.
NoError == [name |-> "none", message |-> <<>>]

DatabaseError(message) == [name |-> "DatabaseError", message |-> message]

Error(message) == [name |-> "Error", message |-> message]

\* What a promise settled with: nothing yet, a value (a connection c, or an
\* operation result r), or an error e.
NoRet == [t |-> "none", c |-> 0, r |-> 0, e |-> NoError]

Ok == [t |-> "ok", c |-> 0, r |-> 0, e |-> NoError]

OkConn(c) == [t |-> "ok", c |-> c, r |-> 0, e |-> NoError]

OkResult(r) == [t |-> "ok", c |-> 0, r |-> r, e |-> NoError]

Err(e) == [t |-> "err", c |-> 0, r |-> 0, e |-> e]

\* The errors the sqlite3 engine reports when it cannot open or close a
\* handle.
EngineOpenError == Error(<<"SQLITE_CANTOPEN">>)

EngineCloseError == Error(<<"SQLITE_BUSY">>)

\* The errors an operation passed to withConnection may throw.
OperationErrors ==
    {Error(<<"Operation failed">>), DatabaseError(<<"Database error">>)}

\* An argument that is not given.
Undefined == <<"undefined">>

\* No subject, predicate or object is given.
NoPattern ==
    [subject |-> Undefined, predicate |-> Undefined, object |-> Undefined]

\* What the sqlite3 engine reports for a statement.
EngineIOError == Error(<<"SQLITE_IOERR", "disk I/O error">>)

EngineClosedError == Error(<<"SQLITE_MISUSE", "Database is closed">>)

NoTableError == Error(<<"SQLITE_ERROR", "no such table", "triples">>)

\* What the file system reports.
NoFileError == Error(<<"ENOENT", "no such file or directory">>)

FileReadError == Error(<<"EIO", "i/o error">>)

FileWriteError == Error(<<"ENOSPC", "no space left on device">>)

ConstraintError == Error(<<"SQLITE_CONSTRAINT", "UNIQUE constraint failed">>)

\* The value caller p's operation resolves with (0 stands for undefined).
ResultOf(p) == p

VARIABLES
    \* ConnectionPool
    maxConnections,         \* this.maxConnections
    availableConnections,   \* this.availableConnections: the idle set, a stack
    initialized,            \* this.initialized
    \* the sqlite3 engine
    openConnections,        \* the handles that are open
    nextConn,               \* the next handle to be created
    faults,                 \* times the engine has reported an error
    \* the callers: task[p] holds the locals of caller p's call
    \*   pc               the suspended frames, innermost last
    \*   ret              what the awaited callee, or the call, settled with
    \*   calls            calls p has issued
    \*   kind             the call p issued last
    \*   held             connections p got from acquire() and keeps
    \*   connection       withConnection's connection, release's argument
    \*   operationResult  withConnection's operationResult (0: undefined)
    \*   operationError   withConnection's operationError
    \*   releaseError     withConnection's releaseError
    \*   pendingOpen      createConnection() calls of initialize's Promise.all
    \*   triples          addTriples: the triples argument
    \*   batch            addTriples: the triples not yet inserted
    \*   timestamp        backup: the time in the name of the new file
    \*   operation        enqueue: the number of the operation
    \*   after            enqueue: the operation this.queue was the promise
    \*                    of when the call chained on it
    \*   receiver         performBackupWithErrorBoundry: what this is
    \*   logged           performBackupWithErrorBoundry: the error passed
    \*                    to console.error
    \*   backupPath       restoreFromBackup: the file of the backup
    \*                    directory it is called with (0: no such file)
    \*   graph            the graph argument
    \*   result           the rows that query or getTriples resolved with,
    \*                    a bag
    \*   pattern          query: the subject, predicate and object arguments
    \*   idleAtCall       idle connections when the call began
    \*   initializedAtCall  this.initialized when the call began
    \*   dbAtCall         this.db when the call began
    \*   othersAtCall     calls the other callers had issued when the call
    \*                    began (-1: one of them was in flight)
    task,
    callLimit,              \* calls each caller issues at most
    \* DatabaseManager
    db,                     \* this.db (0: null)
    backupIntervalId,       \* this.backupIntervalId (0: undefined)
    timers,                 \* the interval timers that are running
    nextTimer,              \* the next timer setInterval() returns
    dbPath,                 \* this.dbPath: ":memory:" or a file
    backupEnabled,          \* this.backupConfig.enabled
    maxBackups,             \* this.backupConfig.maxBackups
    rows,                   \* the triples table of every database: a bag
                            \* of rows
    schemas,                \* the databases that have the triples table
    backups,                \* the files of the backup directory, in the
                            \* order they were created in: the name (the
                            \* timestamp in it) and the content of each
    clock,                  \* the system clock, in milliseconds
    options,                \* the options the manager was constructed with
                            \*   (0: the option is not given)
    \* WriteQueue
    writeQueue              \* queue: the operation whose promise, with its
                            \*   errors ignored, this.queue is (0: a
                            \*   resolved promise)
                            \* enqueued: the operations enqueued so far; an
                            \*   operation is known by its number
                            \* started: the operations invoked, in order
                            \* settled: the operations that have settled

\* Options that give neither maxConnections nor maxPoolSize.
NoOptions == [maxConnections |-> 0, maxPoolSize |-> 0]

\* new WriteQueue(): this.queue is Promise.resolve()
NoQueue == [queue |-> 0, enqueued |-> 0, started |-> <<>>, settled |-> {}]

poolVars == <<maxConnections, availableConnections, initialized,
              openConnections, nextConn>>

dbVars == <<db, backupIntervalId, timers, nextTimer, dbPath, backupEnabled,
            maxBackups, rows, schemas, backups, clock, options, writeQueue>>

vars == <<poolVars, faults, task, callLimit, dbVars>>

Top(p) == IF task[p].pc = <<>> THEN "idle" ELSE Last(task[p].pc)

\* Caller p's locals with its innermost frame popped.
Popped(p) == [task[p] EXCEPT !.pc = Front(@)]

\* The engine reports an error once more (an open or a close that fails).
Fault == faults < MaxFaults /\ faults' = faults + 1

NoFault == faults' = faults

\* --------------------------------------------------------- types/Triple.ts

\* A string is the sequence of its characters.
Lower ==
    {"a", "b", "c", "d", "e", "f", "g", "h", "i", "j", "k", "l", "m",
     "n", "o", "p", "q", "r", "s", "t", "u", "v", "w", "x", "y", "z"}

Upper ==
    {"A", "B", "C", "D", "E", "F", "G", "H", "I", "J", "K", "L", "M",
     "N", "O", "P", "Q", "R", "S", "T", "U", "V", "W", "X", "Y", "Z"}

Alpha == Lower \cup Upper

Digit == {"0", "1", "2", "3", "4", "5", "6", "7", "8", "9"}

AlphaNum == Alpha \cup Digit

\* The characters String.prototype.trim() removes, as far as the sample
\* strings have them.
Whitespace == {" ", "\t", "\n", "\r"}

\* A regular expression: one character of a set, a sequence, a choice, or a
\* repetition of min to max times (max -1: any number).
OneOf(S) == [k |-> "set", of |-> S]

Lit(c) == OneOf({c})

Seq_(list) == [k |-> "seq", of |-> list]

Alt(list) == [k |-> "alt", of |-> list]

Rep(re, min, max) == [k |-> "rep", of |-> <<re>>, min |-> min, max |-> max]

Star(re) == Rep(re, 0, -1)

Plus(re) == Rep(re, 1, -1)

Opt(re) == Rep(re, 0, 1)

\* The sequence of the characters of the list, each matched as it is.
Word(list) == Seq_([i \in 1..Len(list) |-> Lit(list[i])])

RECURSIVE Ends(_, _, _), EndsSeq(_, _, _), EndsRep(_, _, _, _, _, _)
\* The positions at which a match of re that starts at position i of s may
\* end (the position after its last character).
Ends(re, s, i) ==
    CASE re.k = "set" ->
             IF i <= Len(s) /\ s[i] \in re.of THEN {i + 1} ELSE {}
      [] re.k = "seq" -> EndsSeq(re.of, s, {i})
      [] re.k = "alt" ->
             UNION {Ends(re.of[n], s, i) : n \in 1..Len(re.of)}
      [] re.k = "rep" -> EndsRep(re.of[1], s, {i}, 0, re.min, re.max)

\* The positions at which matches of the res of list, one after the other,
\* may end when the first starts at a position of starts.
EndsSeq(list, s, starts) ==
    IF list = <<>> \/ starts = {}
    THEN starts
    ELSE EndsSeq(Tail(list), s,
                 UNION {Ends(Head(list), s, i) : i \in starts})

\* The positions at which done or more repetitions of re may end, the
\* repetitions so far ending at a position of starts.
EndsRep(re, s, starts, done, min, max) ==
    LET here == IF done >= min THEN starts ELSE {}
        next == UNION {Ends(re, s, i) : i \in starts}
    IN IF starts = {} \/ done = max \/ next = {}
       THEN here
       ELSE here \cup EndsRep(re, s, next, done + 1, min, max)

\* RegExp.prototype.test for a regular expression anchored by ^ and $.
Test(re, s) == (Len(s) + 1) \in Ends(re, s, 1)

Unreserved == AlphaNum \cup {"-", ".", "_", "~", "%"}

SubDelims == {"!", "$", "&", "'", "(", ")", "*", "+", ",", ";", "="}

PathChars == Unreserved \cup SubDelims \cup {":", "@"}

\* URI_REGEX, line 29
URI_REGEX ==
    Alt(<<
        Seq_(<<OneOf(Alpha),
               Star(OneOf(AlphaNum \cup {"+", ".", "-"})),
               Word(<<":", "/", "/">>),
               Opt(Seq_(<<Plus(OneOf(Unreserved \cup SubDelims)), Lit("@")>>)),
               Alt(<<Seq_(<<Lit("["),
                            Plus(OneOf(Digit \cup {"a", "b", "c", "d", "e",
                                                   "f", "A", "B", "C", "D",
                                                   "E", "F", ":", "."})),
                            Lit("]")>>),
                     Plus(OneOf(Unreserved))>>),
               Opt(Seq_(<<Lit(":"), Plus(OneOf(Digit))>>)),
               Star(Seq_(<<Lit("/"), Star(OneOf(PathChars))>>)),
               Opt(Seq_(<<Lit("?"),
                          Star(OneOf(PathChars \cup {"/", "?"}))>>)),
               Opt(Seq_(<<Lit("#"),
                          Star(OneOf(PathChars \cup {"/", "?"}))>>))>>),
        Seq_(<<Word(<<"u", "r", "n", ":">>),
               OneOf(AlphaNum),
               Rep(OneOf(AlphaNum \cup {"-"}), 0, 31),
               Lit(":"),
               Plus(OneOf(AlphaNum \cup
                          {"(", ")", "+", ",", "-", ".", ":", "=", "@", ";",
                           "$", "_", "!", "*", "'", "%", "/", "?", "#"}))>>),
        Seq_(<<Word(<<"f", "i", "l", "e", ":", "/", "/", "/">>),
               Plus(OneOf(PathChars \cup {"/"}))>>)
    >>)

\* isValidUri(uri), lines 34-43
isValidUri(uri) ==
    /\ uri # <<>> => (uri[1] \notin Whitespace /\ Last(uri) \notin Whitespace)
    /\ Test(URI_REGEX, uri)

RECURSIVE FindEndQuote(_, _, _)
\* isValidLiteral, lines 53-64: the index (from 0) of the closing quote, -1
\* if there is none; i is the index looked at, from 1.
FindEndQuote(literal, i, inEscape) ==
    IF i >= Len(literal) THEN -1
    ELSE IF literal[i + 1] = "\\"
    THEN FindEndQuote(literal, i + 1, ~inEscape)
    ELSE IF literal[i + 1] = "\"" /\ ~inEscape THEN i
    ELSE FindEndQuote(literal, i + 1, FALSE)

RECURSIVE Split(_, _)
\* String.prototype.split(separator), for a separator of one character
Split(s, separator) ==
    IF \A i \in 1..Len(s) : s[i] # separator
    THEN <<s>>
    ELSE LET at == CHOOSE i \in 1..Len(s) :
                       /\ s[i] = separator
                       /\ \A j \in 1..(i - 1) : s[j] # separator
         IN <<SubSeq(s, 1, at - 1)>>
                \o Split(SubSeq(s, at + 1, Len(s)), separator)

\* isValidLiteral, lines 76-93: the language tag after the @
ValidLangTag(langTag) ==
    LET subtags == Split(langTag, "-")
    IN /\ langTag # <<>>
       /\ Test(Rep(OneOf(Alpha), 2, 3), subtags[1])
       /\ \A i \in 2..Len(subtags) :
             Test(Rep(OneOf(AlphaNum), 1, 8), subtags[i])

RECURSIVE ValidLiteralValue(_, _)
\* isValidLiteral, lines 104-123: the characters between the quotes, from
\* the index i (from 0) on
ValidLiteralValue(literalValue, i) ==
    IF i >= Len(literalValue) THEN TRUE
    ELSE IF literalValue[i + 1] = "\\"
    THEN /\ i + 1 < Len(literalValue)
         /\ literalValue[i + 2] \in {"\"", "\\", "\n", "r", "t"}
         /\ ValidLiteralValue(literalValue, i + 2)
    ELSE IF literalValue[i + 1] = "\"" THEN FALSE
    ELSE IF \/ literalValue[i + 1] = "@"
            \/ /\ literalValue[i + 1] = "^"
               /\ i + 1 < Len(literalValue)
               /\ literalValue[i + 2] = "^"
    THEN FALSE
    ELSE ValidLiteralValue(literalValue, i + 1)

\* isValidLiteral(literal), lines 45-124
isValidLiteral(literal) ==
    IF Len(literal) < 2 \/ literal[1] # "\"" THEN FALSE
    ELSE LET endQuoteIndex == FindEndQuote(literal, 1, FALSE)
             rest == SubSeq(literal, endQuoteIndex + 2, Len(literal))
         IN IF endQuoteIndex = -1 \/ endQuoteIndex = 1 THEN FALSE
            ELSE IF rest # <<>>
            THEN IF rest[1] = "@"
                 THEN ValidLangTag(Tail(rest))
                 ELSE IF Len(rest) >= 2 /\ rest[1] = "^" /\ rest[2] = "^"
                 THEN LET datatype == SubSeq(rest, 3, Len(rest))
                      IN /\ datatype # <<>>
                         /\ datatype[1] = "<"
                         /\ Last(datatype) = ">"
                         /\ isValidUri(SubSeq(datatype, 2, Len(datatype) - 1))
                 ELSE FALSE
            ELSE ValidLiteralValue(SubSeq(literal, 2, endQuoteIndex), 0)

ValidationError(message) == [name |-> "ValidationError", message |-> message]

\* validateTriple(triple), lines 126-138: the error it throws, NoError if
\* it returns.  The message is kept without the term it ends with.
validateTriple(triple) ==
    IF ~isValidUri(triple.subject)
    THEN ValidationError(<<"Invalid subject URI">>)
    ELSE IF ~isValidUri(triple.predicate)
    THEN ValidationError(<<"Invalid predicate URI">>)
    ELSE IF ~isValidUri(triple.object) /\ ~isValidLiteral(triple.object)
    THEN ValidationError(<<"Invalid object (must be URI or literal)">>)
    ELSE NoError

\* ---------------------------------------------------------- ConnectionPool

\* constructor: this.maxConnections = options.maxPoolSize || 10 (0 stands
\* for an option that is not given).
constructorMaxConnections(maxPoolSize) ==
    IF maxPoolSize = 0 THEN DefaultMaxConnections ELSE maxPoolSize

\* The handles createConnection() makes when n more are opened.
NewConnections(n) == [i \in 1..n |-> nextConn + i - 1]

\* createConnection() rejects.
createConnectionError ==
    DatabaseError(<<"Failed to create database connection">>
                      \o EngineOpenError.message)

\* closeConnection() rejects.
closeConnectionError ==
    DatabaseError(<<"Failed to close connection">> \o EngineCloseError.message)

\* release() catches the error of closeConnection() and wraps it.
releaseError(error) ==
    DatabaseError(<<"Failed to close connection">> \o error.message)

noAvailableError == DatabaseError(<<"No available connections in the pool">>)

\* withConnection() in which the error of release() comes first.
withConnectionResult_releaseFirst(released, opError, opResult) ==
    IF released.t = "err"
    THEN Err(DatabaseError(<<"Failed to close connection">>
                               \o released.e.message))
    ELSE IF opError # NoError
    THEN IF opError.name = "DatabaseError"
         THEN Err(opError)
         ELSE Err(DatabaseError(opError.message))
    ELSE IF opResult = 0
    THEN Err(DatabaseError(<<"Operation failed without returning a result">>))
    ELSE OkResult(opResult)

\* withConnection() that returns operationResult without comparing it with
\* undefined.
withConnectionResult_unchecked(released, opError, opResult) ==
    IF released.t = "err"
    THEN IF opError # NoError
         THEN Err(opError)
         ELSE Err(DatabaseError(<<"Failed to close connection">>
                                    \o released.e.message))
    ELSE IF opError # NoError
    THEN IF opError.name = "DatabaseError"
         THEN Err(opError)
         ELSE Err(DatabaseError(opError.message))
    ELSE OkResult(opResult)

\* What withConnection() settles with, lines 129-150, given what release()
\* settled with.
withConnectionResult(released, opError, opResult) ==
    IF released.t = "err"
    THEN IF opError # NoError
         THEN Err(opError)
         ELSE Err(DatabaseError(<<"Failed to close connection">>
                                    \o released.e.message))
    ELSE IF opError # NoError
    THEN IF opError.name = "DatabaseError"
         THEN Err(opError)
         ELSE Err(DatabaseError(opError.message))
    ELSE IF opResult = 0
    THEN Err(DatabaseError(<<"Operation failed without returning a result">>))
    ELSE OkResult(opResult)

\* DatabaseManager: what its methods throw.
notInitializedError == DatabaseError(<<"Database not initialized">>)

\* init(), lines 50-53: the last part of the message is kept.
initError(error) ==
    DatabaseError(<<"Failed to initialize database", Last(error.message)>>)

setupSchemaError(error) ==
    DatabaseError(<<"Failed to setup database schema">> \o error.message)

addTripleError(error) ==
    DatabaseError(<<"Failed to add triple">> \o error.message)

queryError(error) == DatabaseError(<<"Query failed">> \o error.message)

deleteGraphError(error) ==
    DatabaseError(<<"Failed to delete graph">> \o error.message)

finalizeError(error) ==
    DatabaseError(<<"Failed to finalize statement">> \o error.message)

backupReadError(error) ==
    DatabaseError(<<"Backup read error">> \o error.message)

backupWriteError(error) ==
    DatabaseError(<<"Backup write error">> \o error.message)

\* backup(), lines 151-153: the catch block throws a DatabaseError as it is
\* and wraps any other error.
createBackupError(error) ==
    IF error.name = "DatabaseError" THEN error
    ELSE DatabaseError(<<"Failed to create backup">> \o error.message)

restoreError(error) == DatabaseError(<<"Restore failed">> \o error.message)

\* The callee awaited by the innermost frame of t has settled with r: the
\* locals of the call once every frame that goes on without touching the
\* pool has run.
\*   release_close           release(), after await closeConnection()
\*   initialize_catch        initialize(), after await cleanup(): throw error
\*   acquire_initialize      acquire(), after await initialize(): an error
\*                           propagates; else the frame resumes in
\*                           acquireInitialized
\*   acquire_await           the caller of acquire() keeps the connection
\*   withConnection_acquire  withConnection(), after await acquire(): an
\*                           error propagates; else operation(connection)
\*                           is called and awaited
\*   withConnection_release  withConnection(), after await release()
\*   init_initialize, init_acquire, init_setupSchema
\*                           init(), after an await of its try block: an
\*                           error is caught and wrapped; else the frame
\*                           resumes in a step of its own
\*   setupSchema_exec        setupSchema(), after await of db.exec
\*   deleteGraph_run         deleteGraph(), after await of db.run
\*   restore_close           restoreFromBackup(), after await of db.close:
\*                           an error is caught and wrapped
\*   restore_init            restoreFromBackup(), after await this.init()
\*   addTriples_finalize     addTriples(), after await of stmt.finalize in
\*                           the finally block
\*   query_all               query(): the promise of db.all it returns
\*   backup_copy             backup(), after await of the copy: an error
\*                           is thrown again
\*   queryGraphs_getTriples  queryGraphs(), after await db.getTriples()
\*   performBackup_backup    performBackupWithErrorBoundry(), the try
\*                           block and its catch
\*   GraphManager_init       GraphManager.init(), after await db.init()
\*   any other frame that awaits a call and passes on what it settled with
\* queryGraphs(), lines 31-37: the graph of every triple that has one
collectGraphs(triples) ==
    {triple.graph :
        triple \in {row \in BagToSet(triples) :
                       /\ "graph" \in DOMAIN row
                       /\ row.graph # ""}}

\* What calling this.backup throws when this is not the manager.
NotAFunctionError == [name |-> "TypeError",
                      message |-> <<"this.backup is not a function">>]

\* performBackupWithErrorBoundry() without its catch block.
errorBoundary_rethrown(r) == r

\* performBackupWithErrorBoundry(), lines 88-92: what the call settles
\* with when what its try block awaits has settled with r, or has thrown.
errorBoundary(r) == Ok

RECURSIVE Settled(_, _)
Settled(t, r) ==
    IF t.pc = <<>>
    THEN [t EXCEPT !.ret = r]
    ELSE LET top == Last(t.pc)
             under == [t EXCEPT !.pc = Front(@)]
         IN CASE top = "release_close" ->
                     Settled(under, IF r.t = "err"
                                    THEN Err(releaseError(r.e)) ELSE Ok)
              [] top = "initialize_catch" ->
                     Settled(under, Err(createConnectionError))
              [] top = "acquire_initialize" /\ r.t = "err" ->
                     Settled(under, r)
              [] top = "acquire_await" ->
                     Settled([under EXCEPT
                                 !.held = IF r.t = "ok"
                                          THEN @ \cup {r.c} ELSE @], r)
              [] top = "withConnection_acquire" ->
                     IF r.t = "err"
                     THEN Settled(under, r)
                     ELSE [under EXCEPT
                              !.pc = Append(@, "withConnection_operation"),
                              !.connection = r.c]
              [] top = "withConnection_release" ->
                     Settled([under EXCEPT
                                 !.releaseError = IF r.t = "err"
                                                  THEN r.e ELSE NoError],
                             withConnectionResult(r, t.operationError,
                                                  t.operationResult))
              [] /\ top \in {"init_initialize", "init_acquire",
                            "init_setupSchema"}
                 /\ r.t = "err" ->
                     Settled(under, Err(initError(r.e)))
              [] top = "setupSchema_exec" ->
                     Settled(under, IF r.t = "err"
                                    THEN Err(setupSchemaError(r.e)) ELSE Ok)
              [] top = "deleteGraph_run" ->
                     Settled(under, IF r.t = "err"
                                    THEN Err(deleteGraphError(r.e)) ELSE Ok)
              [] top = "restore_close" /\ r.t = "err" ->
                     Settled(under, Err(restoreError(r.e)))
              [] top = "restore_init" ->
                     Settled(under, IF r.t = "err"
                                    THEN Err(restoreError(r.e)) ELSE Ok)
              [] top = "addTriples_finalize" ->
                     Settled(under,
                             IF r.t = "err" THEN Err(finalizeError(r.e))
                             ELSE IF t.operationError # NoError
                             THEN Err(t.operationError)
                             ELSE Ok)
              [] top = "query_all" ->
                     Settled(under, IF r.t = "err"
                                    THEN Err(queryError(r.e)) ELSE r)
              [] top = "queryGraphs_getTriples" ->
                     Settled([under EXCEPT
                                 !.graphs = IF r.t = "ok"
                                            THEN collectGraphs(t.result)
                                            ELSE {}], r)
              [] top = "performBackup_backup" ->
                     Settled([under EXCEPT
                                 !.logged = IF r.t = "err"
                                            THEN r.e ELSE NoError],
                             errorBoundary(r))
              [] top = "backup_copy" /\ r.t = "err" ->
                     Settled(under, Err(createBackupError(r.e)))
              [] top = "GraphManager_init" /\ r.t = "err" ->
                     Settled(under, r)
              [] top \in {"addTriple_addTriples", "getTriples_all",
                          "clearAll_run", "GraphManager_addTriple",
                          "GraphManager_addTriples",
                          "GraphManager_setupSchema"} ->
                     Settled(under, r)
              [] OTHER -> [t EXCEPT !.ret = r]

\* Caller p goes on with the locals t.
Goes(p, t) == task' = [task EXCEPT ![p] = t]

\* Caller p waits for the event label on top of the frames of t.
Awaits(p, t, label) == Goes(p, [t EXCEPT !.pc = Append(@, label)])

\* initialize() that does not look at the initialized flag.
initializeBody_again(p, t) ==
    /\ Awaits(p, [t EXCEPT
                     !.pendingOpen = Min(InitialConnections, maxConnections)],
              "initialize_all")
    /\ UNCHANGED <<availableConnections, initialized, openConnections,
                   nextConn>>

\* initialize(), to its await of Promise.all.
initializeBody(p, t) ==
    /\ IF initialized
       THEN Goes(p, Settled(t, Ok))
       ELSE Awaits(p, [t EXCEPT
                          !.pendingOpen = Min(InitialConnections,
                                              maxConnections)],
                   "initialize_all")
    /\ UNCHANGED <<availableConnections, initialized, openConnections,
                   nextConn>>

\* Every createConnection() of the Promise.all has resolved: the new
\* connections are pushed and the pool is marked initialized.
initializeOpened(p) ==
    /\ NoFault
    /\ Top(p) = "initialize_all"
    /\ LET connections == NewConnections(task[p].pendingOpen)
       IN /\ availableConnections' = availableConnections \o connections
          /\ openConnections' = openConnections \cup Range(connections)
          /\ nextConn' = nextConn + task[p].pendingOpen
    /\ initialized' = TRUE
    /\ Goes(p, Settled([Popped(p) EXCEPT !.pendingOpen = 0], Ok))
    /\ UNCHANGED <<maxConnections, callLimit, dbVars>>

\* One createConnection() of the Promise.all has rejected; opened of the
\* others do open, and nothing refers to them.  The catch block calls
\* cleanup(), which calls close() on every idle connection with a callback
\* that ignores the error: a handle whose close fails stays open.
initializeFailed(p) ==
    /\ Fault
    /\ Top(p) = "initialize_all"
    /\ \E opened \in 0..(task[p].pendingOpen - 1) :
          /\ nextConn' = nextConn + opened
          /\ \E unclosed \in SUBSET Range(availableConnections) :
                openConnections' =
                    (openConnections \cup Range(NewConnections(opened)))
                        \ (Range(availableConnections) \ unclosed)
    /\ Awaits(p, [Popped(p) EXCEPT !.pendingOpen = 0,
                                   !.pc = Append(@, "initialize_catch")],
              "cleanup_all")
    /\ UNCHANGED <<maxConnections, availableConnections, initialized,
                   callLimit, dbVars>>

\* cleanup(), after its await: the idle set is dropped.
cleanupDone(p) ==
    /\ NoFault
    /\ Top(p) = "cleanup_all"
    /\ availableConnections' = <<>>
    /\ initialized' = FALSE
    /\ Goes(p, Settled(Popped(p), Ok))
    /\ UNCHANGED <<maxConnections, openConnections, nextConn, callLimit,
                   dbVars>>

\* acquire() that opens no connection beyond those of initialize().
acquireCheck_exhausted(p, t) ==
    /\ IF Len(availableConnections) > 0
       THEN /\ availableConnections' = Front(availableConnections)
            /\ Goes(p, Settled(t, OkConn(Last(availableConnections))))
       ELSE /\ Goes(p, Settled(t, Err(noAvailableError)))
            /\ UNCHANGED availableConnections
    /\ UNCHANGED <<initialized, openConnections, nextConn>>

\* acquire() that hands out the connection on top of the idle set and
\* leaves it there.
acquireCheck_unpopped(p, t) ==
    /\ IF Len(availableConnections) > 0
       THEN /\ availableConnections' = availableConnections
            /\ Goes(p, Settled(t, OkConn(Last(availableConnections))))
       ELSE /\ IF Len(availableConnections) < maxConnections
               THEN Awaits(p, t, "createConnection")
               ELSE Goes(p, Settled(t, Err(noAvailableError)))
            /\ UNCHANGED availableConnections
    /\ UNCHANGED <<initialized, openConnections, nextConn>>

\* acquire(), lines 81-89: pop an idle connection, else create one, else
\* throw.
acquireCheck(p, t) ==
    /\ IF Len(availableConnections) > 0
       THEN /\ availableConnections' = Front(availableConnections)
            /\ Goes(p, Settled(t, OkConn(Last(availableConnections))))
       ELSE /\ IF Len(availableConnections) < maxConnections
               THEN Awaits(p, t, "createConnection")
               ELSE Goes(p, Settled(t, Err(noAvailableError)))
            /\ UNCHANGED availableConnections
    /\ UNCHANGED <<initialized, openConnections, nextConn>>

\* acquire(), to its first await or its return.
acquireBody(p, t) ==
    IF ~initialized
    THEN initializeBody(p, [t EXCEPT !.pc = Append(@, "acquire_initialize")])
    ELSE acquireCheck(p, t)

\* acquire(), after await this.initialize() has resolved.
acquireInitialized(p) ==
    /\ NoFault
    /\ Top(p) = "acquire_initialize"
    /\ task[p].ret.t = "ok"
    /\ acquireCheck(p, [Popped(p) EXCEPT !.ret = NoRet])
    /\ UNCHANGED <<maxConnections, callLimit, dbVars>>

\* The sqlite3 callback of createConnection() reports an open handle.
createConnectionOpened(p) ==
    /\ NoFault
    /\ Top(p) = "createConnection"
    /\ openConnections' = openConnections \cup {nextConn}
    /\ nextConn' = nextConn + 1
    /\ Goes(p, Settled(Popped(p), OkConn(nextConn)))
    /\ UNCHANGED <<maxConnections, availableConnections, initialized,
                   callLimit, dbVars>>

\* The sqlite3 callback of createConnection() reports an error.
createConnectionFailed(p) ==
    /\ Fault
    /\ Top(p) = "createConnection"
    /\ Goes(p, Settled(Popped(p), Err(createConnectionError)))
    /\ UNCHANGED <<poolVars, callLimit, dbVars>>

\* release() that resolves and leaves the connection out of the idle set.
releaseBody_dropped(p, t, c) ==
    /\ IF Len(availableConnections) < maxConnections
       THEN /\ availableConnections' = availableConnections
            /\ Goes(p, Settled(t, Ok))
       ELSE /\ Awaits(p, [t EXCEPT !.pc = Append(@, "release_close")],
                      "closeConnection")
            /\ UNCHANGED availableConnections
    /\ UNCHANGED <<initialized, openConnections, nextConn>>

\* release(connection), to its await or its return.
releaseBody(p, t, c) ==
    /\ IF Len(availableConnections) < maxConnections
       THEN /\ availableConnections' = Append(availableConnections, c)
            /\ Goes(p, Settled(t, Ok))
       ELSE /\ Awaits(p, [t EXCEPT !.pc = Append(@, "release_close")],
                      "closeConnection")
            /\ UNCHANGED availableConnections
    /\ UNCHANGED <<initialized, openConnections, nextConn>>

\* The sqlite3 callback of closeConnection(connection) reports success.
closeConnectionClosed(p) ==
    /\ NoFault
    /\ Top(p) = "closeConnection"
    /\ openConnections' = openConnections \ {task[p].connection}
    /\ Goes(p, Settled(Popped(p), Ok))
    /\ UNCHANGED <<maxConnections, availableConnections, initialized,
                   nextConn, callLimit, dbVars>>

\* The sqlite3 callback of closeConnection(connection) reports an error.
closeConnectionFailed(p) ==
    /\ Fault
    /\ Top(p) = "closeConnection"
    /\ Goes(p, Settled(Popped(p), Err(closeConnectionError)))
    /\ UNCHANGED <<poolVars, callLimit, dbVars>>


\* No DatabaseManager has been constructed.
DbIdle ==
    /\ db = 0
    /\ backupIntervalId = 0
    /\ timers = {}
    /\ nextTimer = 1
    /\ dbPath = ":memory:"
    /\ backupEnabled = FALSE
    /\ maxBackups = DefaultMaxBackups
    /\ rows = EmptyBag
    /\ schemas = {}
    /\ backups = <<>>
    /\ clock = 1
    /\ options = NoOptions
    /\ writeQueue = NoQueue

\* ------------------------------------------------- the callers of the pool

RECURSIVE CallsOf(_)
\* The calls the callers in S have issued.
CallsOf(S) ==
    IF S = {} THEN 0
    ELSE LET q == CHOOSE x \in S : TRUE
         IN task[q].calls + CallsOf(S \ {q})

\* Caller p may issue a call: the callers are alike, so a caller makes its
\* first call only when the caller before it has made one.
CanCall(p) ==
    /\ task[p].pc = <<>>
    /\ task[p].calls < callLimit
    /\ IF p = 1 THEN TRUE ELSE task[p - 1].calls > 0

\* The locals of caller p as it issues a call of the kind k.
Called(p, k) ==
    [task[p] EXCEPT
        !.calls = @ + 1,
        !.kind = k,
        !.ret = NoRet,
        !.connection = 0,
        !.operationResult = 0,
        !.operationError = NoError,
        !.releaseError = NoError,
        !.triples = <<>>,
        !.batch = <<>>,
        !.backupPath = 0,
        !.operation = 0,
        !.after = 0,
        !.receiver = "",
        !.logged = NoError,
        !.timestamp = 0,
        !.graph = "",
        !.result = EmptyBag,
        !.graphs = {},
        !.pattern = NoPattern,
        !.idleAtCall = Len(availableConnections),
        !.initializedAtCall = initialized,
        !.dbAtCall = db,
        !.rowsAtCall = rows,
        !.othersAtCall = IF \A q \in Tasks \ {p} : task[q].pc = <<>>
                         THEN CallsOf(Tasks \ {p}) ELSE -1]

\* await pool.initialize()
initialize(p) ==
    /\ CanCall(p)
    /\ initializeBody(p, Called(p, "initialize"))
    /\ UNCHANGED <<maxConnections, faults, callLimit, dbVars>>

\* const c = await pool.acquire(), and the caller keeps c
acquire(p) ==
    /\ CanCall(p)
    /\ acquireBody(p, [Called(p, "acquire") EXCEPT !.pc = <<"acquire_await">>])
    /\ UNCHANGED <<maxConnections, faults, callLimit, dbVars>>

\* await pool.release(c), of a connection c the caller got from acquire()
\* and has not released yet
release(p) ==
    /\ CanCall(p)
    /\ \E c \in task[p].held :
          releaseBody(p, [Called(p, "release") EXCEPT !.held = @ \ {c},
                                                      !.connection = c], c)
    /\ UNCHANGED <<maxConnections, faults, callLimit, dbVars>>

\* await pool.withConnection(operation), line 119: const connection = await
\* this.acquire()
withConnection(p) ==
    /\ CanCall(p)
    /\ acquireBody(p, [Called(p, "withConnection") EXCEPT
                          !.pc = <<"withConnection_acquire">>])
    /\ UNCHANGED <<maxConnections, faults, callLimit, dbVars>>

\* withConnection(), lines 124-130: the operation settles with a value,
\* with undefined or with an error, and release(connection) is called.
operationSettled(p) ==
    /\ Top(p) = "withConnection_operation"
    /\ \E r \in {0, ResultOf(p)}, e \in OperationErrors \cup {NoError} :
          /\ e # NoError => r = 0
          /\ releaseBody(p, [Popped(p) EXCEPT
                                !.pc = Append(@, "withConnection_release"),
                                !.operationResult = r,
                                !.operationError = e],
                         task[p].connection)
    /\ UNCHANGED <<maxConnections, faults, callLimit, dbVars>>

\* ---------------------------------------------------- a stand-alone pool

NoCall ==
    [pc |-> <<>>, ret |-> NoRet, calls |-> 0, kind |-> "none", held |-> {},
     connection |-> 0, operationResult |-> 0, operationError |-> NoError,
     releaseError |-> NoError, triples |-> <<>>, batch |-> <<>>,
     backupPath |-> 0, operation |-> 0, after |-> 0, receiver |-> "", logged |-> NoError, timestamp |-> 0, dbAtCall |-> 0, graph |-> "", result |-> EmptyBag,
     graphs |-> {}, rowsAtCall |-> EmptyBag,
     pattern |-> NoPattern, pendingOpen |-> 0, idleAtCall |-> 0,
     initializedAtCall |-> FALSE, othersAtCall |-> 0]

TaskInit(limit) ==
    /\ task = [p \in Tasks |-> NoCall]
    /\ callLimit = limit
    /\ faults = 0

PoolInit(maxPoolSize) ==
    /\ maxConnections = constructorMaxConnections(maxPoolSize)
    /\ availableConnections = <<>>
    /\ initialized = FALSE
    /\ openConnections = {}
    /\ nextConn = 1

\* new ConnectionPool({ dbPath, maxPoolSize })
Init ==
    /\ \E maxPoolSize \in 1..MaxPoolSize : PoolInit(maxPoolSize)
    /\ TaskInit(MaxCalls)
    /\ DbIdle

\* Two callers issue calls of every kind.
Next ==
    \E p \in Callers :
        \/ initialize(p)
        \/ acquire(p)
        \/ release(p)
        \/ withConnection(p)
        \/ operationSettled(p)
        \/ initializeOpened(p)
        \/ initializeFailed(p)
        \/ cleanupDone(p)
        \/ acquireInitialized(p)
        \/ createConnectionOpened(p)
        \/ createConnectionFailed(p)
        \/ closeConnectionClosed(p)
        \/ closeConnectionFailed(p)

Spec == Init /\ [][Next]_vars

\* ------------------------------------------------- a pool with one caller

SerialInit ==
    /\ \E maxPoolSize \in 1..SerialPoolSize : PoolInit(maxPoolSize)
    /\ TaskInit(SerialCalls)
    /\ DbIdle

\* One caller issues calls of every kind, each when the one before it has
\* settled.  release() finds the idle set below the maximum then.
SerialNext ==
    \/ initialize(1)
    \/ acquire(1)
    \/ release(1)
    \/ withConnection(1)
    \/ operationSettled(1)
    \/ initializeOpened(1)
    \/ initializeFailed(1)
    \/ cleanupDone(1)
    \/ acquireInitialized(1)
    \/ createConnectionOpened(1)
    \/ createConnectionFailed(1)

SerialSpec == SerialInit /\ [][SerialNext]_vars

\* ------------------------------------- a burst of withConnection calls

\* The pool once await pool.initialize() has resolved on a new pool.
InitializedPool(maxPoolSize) ==
    LET n == Min(InitialConnections, constructorMaxConnections(maxPoolSize))
    IN /\ maxConnections = constructorMaxConnections(maxPoolSize)
       /\ availableConnections = [i \in 1..n |-> i]
       /\ initialized = TRUE
       /\ openConnections = 1..n
       /\ nextConn = n + 1

BurstInit ==
    /\ \E maxPoolSize \in 1..MaxPoolSize : InitializedPool(maxPoolSize)
    /\ TaskInit(1)
    /\ DbIdle

\* Every caller issues one withConnection call.
BurstNext ==
    \E p \in Tasks :
        \/ withConnection(p)
        \/ operationSettled(p)
        \/ createConnectionOpened(p)
        \/ createConnectionFailed(p)
        \/ closeConnectionClosed(p)
        \/ closeConnectionFailed(p)

BurstSpec == BurstInit /\ [][BurstNext]_vars

\* A sqlite3 callback is called in the end, and an operation that the
\* caller passes settles in the end.
Progress(p) ==
    \/ operationSettled(p)
    \/ createConnectionOpened(p)
    \/ createConnectionFailed(p)
    \/ closeConnectionClosed(p)
    \/ closeConnectionFailed(p)

FairBurstSpec == BurstSpec /\ \A p \in Tasks : WF_vars(Progress(p))


\* --------------------------------------------------------- DatabaseManager

\* The strings the callers pass as terms of a triple.
UriA == <<"h", ":", "/", "/", "a">>

UriB == <<"u", "r", "n", ":", "a", ":", "b">>

LitX == <<"\"", "x", "\"">>

NotUri == <<"a", " ", "b">>

Triple(s, p, o) == [subject |-> s, predicate |-> p, object |-> o]

\* The triples the callers pass: two that validateTriple accepts, and one
\* that it rejects.
SampleTriples ==
    {Triple(UriA, UriB, UriA), Triple(UriA, UriB, LitX),
     Triple(UriA, UriB, NotUri)}

Graphs == {"default", "g"}

\* The batches the callers pass to addTriples.
Batches ==
    UNION {[1..n -> SampleTriples] : n \in 0..MaxBatch}

\* The subject, predicate and object arguments the callers pass to query:
\* not given, the empty string, or a term.
Patterns ==
    [subject : {Undefined, <<>>, UriA},
     predicate : {Undefined},
     object : {Undefined, LitX}]

\* The database a connection is open on: every connection to ':memory:'
\* has a database of its own, every connection to a file has the file (0).
Store(c) == IF dbPath = ":memory:" THEN c ELSE 0

Row(c, triple, graph) ==
    [store |-> Store(c), subject |-> triple.subject,
     predicate |-> triple.predicate, object |-> triple.object,
     graph |-> graph]

\* The rows of the bag B that are in the set kept, each as often as B has
\* it.
Where(B, kept) == [row \in DOMAIN B \cap kept |-> B[row]]

\* What the engine answers a statement on connection c that needs the
\* triples table, when it answers with an error whatever else happens.
Refused(c) ==
    IF c \notin openConnections THEN EngineClosedError
    ELSE IF Store(c) \notin schemas THEN NoTableError
    ELSE NoError

\* The engine reports error for a statement on connection c: an error of
\* the statement, or an error of its own.
Fails(c, error) ==
    IF Refused(c) # NoError
    THEN error = Refused(c) /\ NoFault
    ELSE error = EngineIOError /\ Fault

\* The second frame from the top.
Below(p) ==
    IF Len(task[p].pc) < 2 THEN "idle" ELSE task[p].pc[Len(task[p].pc) - 1]

\* What the pool's methods leave alone of the manager.
managerVars == <<db, backupIntervalId, timers, nextTimer>>

storeVars == <<rows, schemas, backups>>

\* The options, the clock and the write queue: what no method of the pool
\* or of the manager writes.
configVars ==
    <<maxConnections, callLimit, dbPath, backupEnabled, maxBackups, clock,
      options, writeQueue>>

poolState == <<availableConnections, initialized, openConnections, nextConn>>

\* init() that goes through its try block whatever this.db is.
initBody_again(p, t) ==
    initializeBody(p, [t EXCEPT !.pc = Append(@, "init_initialize")])

\* init(), lines 42-46, to its first await
initBody(p, t) ==
    IF db # 0
    THEN Goes(p, Settled(t, Ok)) /\ UNCHANGED poolState
    ELSE initializeBody(p, [t EXCEPT !.pc = Append(@, "init_initialize")])

\* await manager.init()
init(p) ==
    /\ CanCall(p)
    /\ initBody(p, Called(p, "init"))
    /\ UNCHANGED <<configVars, faults, managerVars, storeVars>>

\* init(), line 47: this.pool.acquire() is called
initInitialized(p) ==
    /\ NoFault
    /\ Top(p) = "init_initialize"
    /\ task[p].ret.t = "ok"
    /\ acquireBody(p, [Popped(p) EXCEPT !.ret = NoRet,
                                        !.pc = Append(@, "init_acquire")])
    /\ UNCHANGED <<configVars, managerVars, storeVars>>

\* setupSchema(), lines 57-80, to its await, on the connection this.db
setupSchemaBody(p, t, handle) ==
    IF handle = 0
    THEN Goes(p, Settled(t, Err(notInitializedError)))
    ELSE Awaits(p, [t EXCEPT !.connection = handle,
                             !.pc = Append(@, "setupSchema_exec")],
                "exec")

\* init(), lines 47-48: this.db is the acquired connection, and
\* setupSchema() is called
initAcquired(p) ==
    /\ NoFault
    /\ Top(p) = "init_acquire"
    /\ task[p].ret.t = "ok"
    /\ db' = task[p].ret.c
    /\ setupSchemaBody(p, [Popped(p) EXCEPT
                              !.ret = NoRet,
                              !.pc = Append(@, "init_setupSchema")],
                       task[p].ret.c)
    /\ UNCHANGED <<configVars, poolState, backupIntervalId, timers, nextTimer,
                   storeVars>>

\* setupBackupInterval(), lines 95-100
setupBackupInterval ==
    IF ~backupEnabled \/ dbPath = ":memory:"
    THEN UNCHANGED <<backupIntervalId, timers, nextTimer>>
    ELSE /\ backupIntervalId' = nextTimer
         /\ timers' = timers \cup {nextTimer}
         /\ nextTimer' = nextTimer + 1

\* init(), line 49: setupSchema() has resolved
initSchemaReady(p) ==
    /\ NoFault
    /\ Top(p) = "init_setupSchema"
    /\ task[p].ret.t = "ok"
    /\ setupBackupInterval
    /\ Goes(p, Settled([Popped(p) EXCEPT !.ret = NoRet], Ok))
    /\ UNCHANGED <<configVars, poolState, db, storeVars>>

\* await manager.setupSchema()
setupSchema(p) ==
    /\ CanCall(p)
    /\ setupSchemaBody(p, Called(p, "setupSchema"), db)
    /\ UNCHANGED <<configVars, faults, poolState, managerVars, storeVars>>

\* The callback of db.exec reports success: the table and its indexes are
\* there.
execDone(p) ==
    /\ NoFault
    /\ Top(p) = "exec"
    /\ task[p].connection \in openConnections
    /\ schemas' = schemas \cup {Store(task[p].connection)}
    /\ Goes(p, Settled(Popped(p), Ok))
    /\ UNCHANGED <<configVars, poolState, managerVars, rows, backups>>

\* The callback of db.exec reports an error.
execFailed(p) ==
    /\ Top(p) = "exec"
    /\ \E error \in {EngineClosedError, EngineIOError} :
          /\ IF task[p].connection \in openConnections
             THEN error = EngineIOError /\ Fault
             ELSE error = EngineClosedError /\ NoFault
          /\ Goes(p, Settled(Popped(p), Err(error)))
    /\ UNCHANGED <<configVars, poolState, managerVars, storeVars>>

\* close() that leaves the backup timer running.
close_running(p) ==
    /\ CanCall(p)
    /\ IF db = 0
       THEN UNCHANGED <<availableConnections, openConnections>>
       ELSE IF Len(availableConnections) < maxConnections
       THEN /\ availableConnections' = Append(availableConnections, db)
            /\ UNCHANGED openConnections
       ELSE /\ \E closed \in BOOLEAN :
                  openConnections' =
                      IF closed THEN openConnections \ {db}
                      ELSE openConnections
            /\ UNCHANGED availableConnections
    /\ db' = 0
    /\ timers' = timers
    /\ backupIntervalId' = 0
    /\ Goes(p, Settled(Called(p, "close"), Ok))
    /\ UNCHANGED <<configVars, faults, initialized, nextConn, nextTimer,
                   storeVars>>

\* await manager.close(), lines 284-298.  release() is called and not
\* awaited: it pushes the connection, or it starts to close it and nothing
\* waits for the close or learns whether it failed.
close(p) ==
    /\ CanCall(p)
    /\ IF db = 0
       THEN UNCHANGED <<availableConnections, openConnections>>
       ELSE IF Len(availableConnections) < maxConnections
       THEN /\ availableConnections' = Append(availableConnections, db)
            /\ UNCHANGED openConnections
       ELSE /\ \E closed \in BOOLEAN :
                  openConnections' =
                      IF closed THEN openConnections \ {db}
                      ELSE openConnections
            /\ UNCHANGED availableConnections
    /\ db' = 0
    /\ timers' = timers \ {backupIntervalId}
    /\ backupIntervalId' = 0
    /\ Goes(p, Settled(Called(p, "close"), Ok))
    /\ UNCHANGED <<configVars, faults, initialized, nextConn, nextTimer,
                   storeVars>>

\* What a method of the manager that only runs a statement leaves alone.
statementFrame == <<configVars, poolState, managerVars>>

\* addTriples() that prepares its statement whatever this.db is.
addTriplesBody_unguarded(p, t, triples, graph) ==
    LET prepared == [t EXCEPT !.connection = db,
                              !.triples = triples,
                              !.batch = triples,
                              !.graph = graph,
                              !.pc = Append(@, "addTriples_finalize")]
    IN IF triples = <<>>
       THEN Awaits(p, prepared, "finalize")
       ELSE Awaits(p, prepared, "run")

\* addTriples(triples, graph), lines 185-204, to its first await: the
\* statement is prepared on this.db, and the first triple is run; with no
\* triple the finally block finalizes the statement.
addTriplesBody(p, t, triples, graph) ==
    IF db = 0
    THEN Goes(p, Settled(t, Err(notInitializedError)))
    ELSE LET prepared == [t EXCEPT !.connection = db,
                                   !.triples = triples,
                                   !.batch = triples,
                                   !.graph = graph,
                                   !.pc = Append(@, "addTriples_finalize")]
         IN IF triples = <<>>
            THEN Awaits(p, prepared, "finalize")
            ELSE Awaits(p, prepared, "run")

\* addTriple(triple, graph), lines 178-183
addTripleBody(p, t, triple, graph) ==
    IF db = 0
    THEN Goes(p, Settled(t, Err(notInitializedError)))
    ELSE addTriplesBody(p, [t EXCEPT !.pc = Append(@, "addTriple_addTriples")],
                        <<triple>>, graph)

\* await manager.addTriple(triple, graph)
addTriple(p) ==
    /\ CanCall(p)
    /\ \E triple \in SampleTriples, graph \in Graphs :
          addTripleBody(p, Called(p, "addTriple"), triple, graph)
    /\ UNCHANGED <<statementFrame, faults, storeVars>>

\* await manager.addTriples(triples, graph)
addTriples(p) ==
    /\ CanCall(p)
    /\ \E triples \in Batches, graph \in Graphs :
          addTriplesBody(p, Called(p, "addTriples"), triples, graph)
    /\ UNCHANGED <<statementFrame, faults, storeVars>>

\* The row stmt.run is called with.
NextRow(p) == Row(task[p].connection, task[p].batch[1], task[p].graph)

\* stmt.run on a table without its primary key.
runInserted_unkeyed(p) ==
    /\ NoFault
    /\ Top(p) = "run"
    /\ Refused(task[p].connection) = NoError
    /\ rows' = rows (+) SetToBag({NextRow(p)})
    /\ Goes(p, [task[p] EXCEPT
                   !.batch = Tail(@),
                   !.pc = IF Len(task[p].batch) = 1
                          THEN Append(Front(@), "finalize") ELSE @])
    /\ UNCHANGED <<statementFrame, schemas, backups>>

\* The callback of stmt.run reports success: the row is stored, and the
\* loop runs the next triple or the finally block finalizes the statement.
runInserted(p) ==
    /\ NoFault
    /\ Top(p) = "run"
    /\ Refused(task[p].connection) = NoError
    /\ ~BagIn(NextRow(p), rows)
    /\ rows' = rows (+) SetToBag({NextRow(p)})
    /\ Goes(p, [task[p] EXCEPT
                   !.batch = Tail(@),
                   !.pc = IF Len(task[p].batch) = 1
                          THEN Append(Front(@), "finalize") ELSE @])
    /\ UNCHANGED <<statementFrame, schemas, backups>>

\* The callback of stmt.run reports an error: the promise of the loop
\* rejects, and the finally block finalizes the statement.
runRejected(p) ==
    /\ Top(p) = "run"
    /\ \E error \in {EngineClosedError, NoTableError, ConstraintError,
                     EngineIOError} :
          /\ IF Refused(task[p].connection) = NoError /\ BagIn(NextRow(p), rows)
             THEN error = ConstraintError /\ NoFault
             ELSE Fails(task[p].connection, error)
          /\ Goes(p, [task[p] EXCEPT
                         !.operationError = addTripleError(error),
                         !.pc = Append(Front(@), "finalize")])
    /\ UNCHANGED <<statementFrame, storeVars>>

\* The callback of stmt.finalize reports success.
finalizeDone(p) ==
    /\ NoFault
    /\ Top(p) = "finalize"
    /\ Goes(p, Settled(Popped(p), Ok))
    /\ UNCHANGED <<statementFrame, storeVars>>

\* The callback of stmt.finalize reports an error.
finalizeFailed(p) ==
    /\ Fault
    /\ Top(p) = "finalize"
    /\ Goes(p, Settled(Popped(p), Err(EngineIOError)))
    /\ UNCHANGED <<statementFrame, storeVars>>

\* The columns of a row of the triples table.
Columns(row) ==
    [subject |-> row.subject, predicate |-> row.predicate,
     object |-> row.object, graph |-> row.graph]

\* if (subject): a string that is given and not empty
Truthy(x) == x # Undefined /\ x # <<>>

\* A SELECT without its graph = ? condition.
Selected_anyGraph(c, pattern, graph) ==
    LET Matches(row) ==
            /\ row.store = Store(c)
            /\ Truthy(pattern.subject) => row.subject = pattern.subject
            /\ Truthy(pattern.predicate) => row.predicate = pattern.predicate
            /\ Truthy(pattern.object) => row.object = pattern.object
    IN Where(rows, {row \in DOMAIN rows : Matches(row)})

\* SELECT * FROM triples WHERE graph = ? [AND subject = ?] [AND predicate
\* = ?] [AND object = ?], on connection c
Selected(c, pattern, graph) ==
    LET Matches(row) ==
            /\ row.store = Store(c)
            /\ row.graph = graph
            /\ Truthy(pattern.subject) => row.subject = pattern.subject
            /\ Truthy(pattern.predicate) => row.predicate = pattern.predicate
            /\ Truthy(pattern.object) => row.object = pattern.object
    IN Where(rows, {row \in DOMAIN rows : Matches(row)})

\* await manager.query(subject, predicate, object, graph), lines 216-255
query(p) ==
    /\ CanCall(p)
    /\ \E pattern \in Patterns, graph \in Graphs :
          IF db = 0
          THEN Goes(p, Settled(Called(p, "query"), Err(notInitializedError)))
          ELSE Awaits(p, [Called(p, "query") EXCEPT
                             !.connection = db,
                             !.pattern = pattern,
                             !.graph = graph,
                             !.pc = <<"query_all">>],
                      "all")
    /\ UNCHANGED <<statementFrame, faults, storeVars>>

\* await manager.getTriples(graph), lines 300-313
getTriples(p) ==
    /\ CanCall(p)
    /\ \E graph \in Graphs :
          IF db = 0
          THEN Goes(p, Settled(Called(p, "getTriples"),
                               Err(notInitializedError)))
          ELSE Awaits(p, [Called(p, "getTriples") EXCEPT
                             !.connection = db,
                             !.graph = graph,
                             !.pc = <<"getTriples_all">>],
                      "all")
    /\ UNCHANGED <<statementFrame, faults, storeVars>>

\* The callback of db.all reports the rows: every column for query,
\* subject, predicate and object for getTriples.
allDone(p) ==
    /\ NoFault
    /\ Top(p) = "all"
    /\ Refused(task[p].connection) = NoError
    /\ LET selected == Selected(task[p].connection, task[p].pattern,
                                task[p].graph)
           columns == IF Below(p) = "query_all"
                      THEN BagOfAll(Columns, selected)
                      ELSE BagOfAll(LAMBDA row : Triple(row.subject,
                                                        row.predicate,
                                                        row.object),
                                    selected)
       IN Goes(p, Settled([Popped(p) EXCEPT !.result = columns], Ok))
    /\ UNCHANGED <<statementFrame, storeVars>>

\* The callback of db.all reports an error.
allFailed(p) ==
    /\ Top(p) = "all"
    /\ \E error \in {EngineClosedError, NoTableError, EngineIOError} :
          /\ Fails(task[p].connection, error)
          /\ Goes(p, Settled(Popped(p), Err(error)))
    /\ UNCHANGED <<statementFrame, storeVars>>

\* await manager.deleteGraph(graph), lines 257-271
deleteGraph(p) ==
    /\ CanCall(p)
    /\ \E graph \in Graphs :
          IF db = 0
          THEN Goes(p, Settled(Called(p, "deleteGraph"),
                               Err(notInitializedError)))
          ELSE Awaits(p, [Called(p, "deleteGraph") EXCEPT
                             !.connection = db,
                             !.graph = graph,
                             !.pc = <<"deleteGraph_run">>],
                      "delete")
    /\ UNCHANGED <<statementFrame, faults, storeVars>>

\* await manager.clearAll(), lines 273-282
clearAll(p) ==
    /\ CanCall(p)
    /\ IF db = 0
       THEN Goes(p, Settled(Called(p, "clearAll"), Err(notInitializedError)))
       ELSE Awaits(p, [Called(p, "clearAll") EXCEPT
                          !.connection = db,
                          !.pc = <<"clearAll_run">>],
                   "delete")
    /\ UNCHANGED <<statementFrame, faults, storeVars>>

\* A DELETE that takes every row of the table, whatever its graph.
deleteDone_everything(p) ==
    /\ NoFault
    /\ Top(p) = "delete"
    /\ Refused(task[p].connection) = NoError
    /\ LET Kept(row) == row.store # Store(task[p].connection)
       IN rows' = Where(rows, {row \in DOMAIN rows : Kept(row)})
    /\ Goes(p, Settled(Popped(p), Ok))
    /\ UNCHANGED <<statementFrame, schemas, backups>>

\* The callback of db.run reports success: DELETE FROM triples [WHERE
\* graph = ?] has run.
deleteDone(p) ==
    /\ NoFault
    /\ Top(p) = "delete"
    /\ Refused(task[p].connection) = NoError
    /\ LET Kept(row) ==
               ~ /\ row.store = Store(task[p].connection)
                 /\ \/ Below(p) = "clearAll_run"
                    \/ row.graph = task[p].graph
       IN rows' = Where(rows, {row \in DOMAIN rows : Kept(row)})
    /\ Goes(p, Settled(Popped(p), Ok))
    /\ UNCHANGED <<statementFrame, schemas, backups>>

\* The callback of db.run reports an error.
deleteFailed(p) ==
    /\ Top(p) = "delete"
    /\ \E error \in {EngineClosedError, NoTableError, EngineIOError} :
          /\ Fails(task[p].connection, error)
          /\ Goes(p, Settled(Popped(p), Err(error)))
    /\ UNCHANGED <<statementFrame, storeVars>>

\* The content of the database file: what a copy of the file holds.
Snapshot(name) ==
    [name |-> name,
     rows |-> BagOfAll(Columns,
                       Where(rows, {row \in DOMAIN rows : row.store = 0})),
     schema |-> 0 \in schemas]

\* A copy that was cut short.
Partial(name) == [name |-> name, rows |-> EmptyBag, schema |-> FALSE]

\* fs.createWriteStream(backupPath) and what is piped into it: the file of
\* that name is made, or it is truncated and written again.
Written(files, file) ==
    IF \E i \in DOMAIN files : files[i].name = file.name
    THEN [i \in DOMAIN files |->
             IF files[i].name = file.name THEN file ELSE files[i]]
    ELSE Append(files, file)

\* readdirSync(...).sort().reverse().slice(n): the files that n files or
\* more come before when the names are sorted downwards.
toDelete(files, n) ==
    {file \in Range(files) :
        Cardinality({newer \in Range(files) : newer.name > file.name}) >= n}

\* A millisecond passes.  Only backup() reads the clock, for the name of
\* its file, so a tick matters when a name was made from the present
\* millisecond, and only then is it taken.
tick ==
    /\ \/ \E file \in Range(backups) : file.name = clock
       \/ \E p \in Tasks : task[p].timestamp = clock
    /\ clock' = clock + 1
    /\ UNCHANGED <<poolVars, faults, task, callLimit, db, backupIntervalId,
                   timers, nextTimer, dbPath, backupEnabled, maxBackups,
                   rows, schemas, backups, options, writeQueue>>

\* await manager.restoreFromBackup(backupPath), lines 156-165, to its
\* await: this.db is closed
restoreFromBackup(p) ==
    /\ CanCall(p)
    /\ \E backupPath \in 0..Len(backups) :
          IF db = 0
          THEN Goes(p, Settled(Called(p, "restoreFromBackup"),
                               Err(notInitializedError)))
          ELSE Awaits(p, [Called(p, "restoreFromBackup") EXCEPT
                             !.connection = db,
                             !.backupPath = backupPath,
                             !.pc = <<"restore_close">>],
                      "db_close")
    /\ UNCHANGED <<statementFrame, faults, storeVars>>

\* The callback of db.close reports success.
dbClosed(p) ==
    /\ NoFault
    /\ Top(p) = "db_close"
    /\ task[p].connection \in openConnections
    /\ openConnections' = openConnections \ {task[p].connection}
    /\ Goes(p, Settled(Popped(p), Ok))
    /\ UNCHANGED <<configVars, availableConnections, initialized, nextConn,
                   managerVars, storeVars>>

\* The callback of db.close reports an error.
dbCloseFailed(p) ==
    /\ Top(p) = "db_close"
    /\ \E error \in {EngineClosedError, EngineCloseError} :
          /\ IF task[p].connection \in openConnections
             THEN error = EngineCloseError /\ Fault
             ELSE error = EngineClosedError /\ NoFault
          /\ Goes(p, Settled(Popped(p), Err(error)))
    /\ UNCHANGED <<statementFrame, storeVars>>

\* restoreFromBackup(), lines 167-171: the backup is copied over the
\* database file, and init() is called.
restoreCopied(p) ==
    /\ NoFault
    /\ Top(p) = "restore_close"
    /\ task[p].ret.t = "ok"
    /\ IF task[p].backupPath = 0
       THEN /\ Goes(p, Settled(Popped(p), Err(restoreError(NoFileError))))
            /\ UNCHANGED <<poolState, storeVars>>
       ELSE /\ LET copy == backups[task[p].backupPath]
               IN IF dbPath = ":memory:"
                  THEN UNCHANGED <<rows, schemas>>
                  ELSE /\ rows' = Where(rows, {row \in DOMAIN rows :
                                                   row.store # 0})
                                   (+) BagOfAll(LAMBDA r : Row(0, r, r.graph),
                                                copy.rows)
                       /\ schemas' = IF copy.schema THEN schemas \cup {0}
                                     ELSE schemas \ {0}
            /\ initBody(p, [Popped(p) EXCEPT !.ret = NoRet,
                                             !.pc = Append(@, "restore_init")])
            /\ UNCHANGED backups
    /\ UNCHANGED <<configVars, managerVars>>

\* backup() without the return of lines 103-105.
backup_always(p) ==
    /\ CanCall(p)
    /\ Awaits(p, [Called(p, "backup") EXCEPT
                      !.timestamp = clock,
                      !.pc = <<"backup_copy">>],
              "copy")
    /\ UNCHANGED <<statementFrame, faults, storeVars>>

\* await manager.backup(), lines 102-135, to its await: the name of the
\* file is made from the time, and the database file is piped into the
\* file of that name in the backup directory
backupBody(p, t) ==
    IF db = 0 \/ ~backupEnabled \/ dbPath = ":memory:"
    THEN Goes(p, Settled(t, Ok))
    ELSE Awaits(p, [t EXCEPT !.timestamp = clock,
                             !.pc = Append(@, "backup_copy")],
                "copy")

\* await manager.backup()
backup(p) ==
    /\ CanCall(p)
    /\ backupBody(p, Called(p, "backup"))
    /\ UNCHANGED <<statementFrame, faults, storeVars>>

\* The write stream reports 'finish': the new file holds the content of the
\* database file.
copyFinished(p) ==
    /\ NoFault
    /\ Top(p) = "copy"
    /\ backups' = Written(backups, Snapshot(task[p].timestamp))
    /\ Goes(p, Settled(Popped(p), Ok))
    /\ UNCHANGED <<statementFrame, rows, schemas>>

\* A failed copy that also removes the oldest file of the backup directory.
copyFailed_unlinked(p) ==
    /\ Fault
    /\ Top(p) = "copy"
    /\ \E error \in {backupReadError(FileReadError),
                     backupWriteError(FileWriteError)} :
          Goes(p, Settled(Popped(p), Err(error)))
    /\ backups' = IF backups = <<>> THEN backups ELSE Tail(backups)
    /\ UNCHANGED <<statementFrame, rows, schemas>>

\* The read stream or the write stream reports 'error', lines 119-127: the
\* promise rejects with a DatabaseError, and the file of the new name is
\* left as far as it was written, if it was opened.
copyFailed(p) ==
    /\ Fault
    /\ Top(p) = "copy"
    /\ \E error \in {backupReadError(FileReadError),
                     backupWriteError(FileWriteError)} :
          Goes(p, Settled(Popped(p), Err(error)))
    /\ \E created \in BOOLEAN :
          backups' = IF created
                     THEN Written(backups, Partial(task[p].timestamp))
                     ELSE backups
    /\ UNCHANGED <<statementFrame, rows, schemas>>

\* backup(), lines 137-150: all but the maxBackups files of the backup
\* directory with the greatest names are removed.
backupPruned(p) ==
    /\ NoFault
    /\ Top(p) = "backup_copy"
    /\ task[p].ret.t = "ok"
    /\ backups' = IF maxBackups # 0 /\ Len(backups) > maxBackups
                  THEN SelectSeq(backups,
                                 LAMBDA file :
                                     file \notin toDelete(backups, maxBackups))
                  ELSE backups
    /\ Goes(p, Settled([Popped(p) EXCEPT !.ret = NoRet], Ok))
    /\ UNCHANGED <<statementFrame, rows, schemas>>

\* ------------------------------------------------------------ GraphManager

\* What validateTriple does with each of the triples the callers pass.
Validated == [triple \in SampleTriples |-> validateTriple(triple)]

\* A forEach that stops after the first triple.
forEachValidateTriple_first(triples) ==
    IF triples = <<>> THEN NoError
    ELSE Validated[Head(triples)]

RECURSIVE forEachValidateTriple(_)
\* triples.forEach(validateTriple): the error of the first triple that
\* validateTriple throws on, NoError if it throws on none.
forEachValidateTriple(triples) ==
    IF triples = <<>> THEN NoError
    ELSE IF Validated[Head(triples)] # NoError
    THEN Validated[Head(triples)]
    ELSE forEachValidateTriple(Tail(triples))

\* await graph.addTriple(triple, graph), lines 15-18
GraphManager_addTriple(p) ==
    /\ CanCall(p)
    /\ \E triple \in SampleTriples, graph \in Graphs :
          LET t == [Called(p, "GraphManager_addTriple") EXCEPT
                       !.triples = <<triple>>, !.graph = graph]
          IN IF Validated[triple] # NoError
             THEN Goes(p, Settled(t, Err(Validated[triple])))
             ELSE addTripleBody(p, [t EXCEPT
                                       !.pc = <<"GraphManager_addTriple">>],
                                triple, graph)
    /\ UNCHANGED <<statementFrame, faults, storeVars>>

\* await graph.addTriples(triples, graph), lines 20-23
GraphManager_addTriples(p) ==
    /\ CanCall(p)
    /\ \E triples \in Batches, graph \in Graphs :
          LET t == [Called(p, "GraphManager_addTriples") EXCEPT
                       !.triples = triples, !.graph = graph]
          IN IF forEachValidateTriple(triples) # NoError
             THEN Goes(p, Settled(t, Err(forEachValidateTriple(triples))))
             ELSE addTriplesBody(p, [t EXCEPT
                                        !.pc = <<"GraphManager_addTriples">>],
                                 triples, graph)
    /\ UNCHANGED <<statementFrame, faults, storeVars>>

\* await graph.init(), lines 10-13: db.init() is called
GraphManager_init(p) ==
    /\ CanCall(p)
    /\ initBody(p, [Called(p, "GraphManager_init") EXCEPT
                       !.pc = <<"GraphManager_init">>])
    /\ UNCHANGED <<configVars, faults, managerVars, storeVars>>

\* GraphManager.init(), line 12: db.init() has resolved, and
\* db.setupSchema() is called
GraphManager_initDone(p) ==
    /\ NoFault
    /\ Top(p) = "GraphManager_init"
    /\ task[p].ret.t = "ok"
    /\ setupSchemaBody(p, [Popped(p) EXCEPT
                              !.ret = NoRet,
                              !.pc = Append(@, "GraphManager_setupSchema")],
                       db)
    /\ UNCHANGED <<statementFrame, storeVars>>

\* await graph.queryGraphs(), lines 29-30: db.getTriples() is called
\* with no argument, so for the graph 'default'
GraphManager_queryGraphs(p) ==
    /\ CanCall(p)
    /\ IF db = 0
       THEN Goes(p, Settled(Called(p, "GraphManager_queryGraphs"),
                            Err(notInitializedError)))
       ELSE Awaits(p, [Called(p, "GraphManager_queryGraphs") EXCEPT
                          !.connection = db,
                          !.graph = "default",
                          !.pc = <<"queryGraphs_getTriples",
                                   "getTriples_all">>],
                   "all")
    /\ UNCHANGED <<statementFrame, faults, storeVars>>

\* ------------------------------------------- a manager with one caller

\* new DatabaseManager({ dbPath, backup: { enabled, maxBackups } }): the
\* pool is made from the same options, which have no maxPoolSize.
DbInit ==
    /\ PoolInit(0)
    /\ TaskInit(DbCalls)
    /\ db = 0
    /\ backupIntervalId = 0
    /\ timers = {}
    /\ nextTimer = 1
    /\ dbPath \in {":memory:", "store.db"}
    /\ backupEnabled \in BOOLEAN
    /\ maxBackups \in IF backupEnabled THEN {1, DefaultMaxBackups}
                     ELSE {DefaultMaxBackups}
    /\ rows = EmptyBag
    /\ schemas = {}
    /\ backups = <<>>
    /\ clock = 1
    /\ options = NoOptions
    /\ writeQueue = NoQueue

\* One caller issues calls of every kind on the manager and on the
\* GraphManager made from it, each when the one before it has settled.
DbNext ==
    \/ init(1)
    \/ initInitialized(1)
    \/ initAcquired(1)
    \/ initSchemaReady(1)
    \/ setupSchema(1)
    \/ execDone(1)
    \/ execFailed(1)
    \/ close(1)
    \/ addTriple(1)
    \/ addTriples(1)
    \/ runInserted(1)
    \/ runRejected(1)
    \/ finalizeDone(1)
    \/ finalizeFailed(1)
    \/ query(1)
    \/ getTriples(1)
    \/ allDone(1)
    \/ allFailed(1)
    \/ deleteGraph(1)
    \/ clearAll(1)
    \/ deleteDone(1)
    \/ deleteFailed(1)
    \/ restoreFromBackup(1)
    \/ dbClosed(1)
    \/ dbCloseFailed(1)
    \/ restoreCopied(1)
    \/ backup(1)
    \/ copyFinished(1)
    \/ copyFailed(1)
    \/ backupPruned(1)
    \/ GraphManager_addTriple(1)
    \/ GraphManager_addTriples(1)
    \/ GraphManager_init(1)
    \/ GraphManager_initDone(1)
    \/ GraphManager_queryGraphs(1)
    \/ tick
    \/ initializeOpened(1)
    \/ initializeFailed(1)
    \/ cleanupDone(1)

DbSpec == DbInit /\ [][DbNext]_vars

\* ------------------------------------------------- the backup round trip

\* new DatabaseManager({ dbPath: 'store.db', backup: { enabled: true,
\* maxBackups } })
RoundTripInit ==
    /\ PoolInit(0)
    /\ TaskInit(RoundTripCalls)
    /\ db = 0
    /\ backupIntervalId = 0
    /\ timers = {}
    /\ nextTimer = 1
    /\ dbPath = "store.db"
    /\ backupEnabled = TRUE
    /\ maxBackups \in {1, DefaultMaxBackups}
    /\ rows = EmptyBag
    /\ schemas = {}
    /\ backups = <<>>
    /\ clock = 1
    /\ options = NoOptions
    /\ writeQueue = NoQueue

\* The caller has issued k calls, and the last of them has resolved.
Step(k) ==
    /\ task[1].calls = k
    /\ task[1].pc = <<>>
    /\ k > 0 => task[1].ret.t = "ok"

\* The caller awaits init(), addTriple(T), backup(), addTriple(T2) and
\* restoreFromBackup(the newest file of the backup directory), each when
\* the one before it has resolved, and then query(), whatever
\* restoreFromBackup settled with.
RoundTripNext ==
    \/ Step(0) /\ init(1)
    \/ (Step(1) \/ Step(3)) /\ addTriple(1)
    \/ Step(2) /\ backup(1)
    \/ Step(4) /\ restoreFromBackup(1) /\ task'[1].backupPath = Len(backups)
    \/ task[1].calls = 5 /\ query(1)
    \/ initializeOpened(1)
    \/ initializeFailed(1)
    \/ cleanupDone(1)
    \/ initInitialized(1)
    \/ initAcquired(1)
    \/ initSchemaReady(1)
    \/ execDone(1)
    \/ execFailed(1)
    \/ runInserted(1)
    \/ runRejected(1)
    \/ finalizeDone(1)
    \/ finalizeFailed(1)
    \/ copyFinished(1)
    \/ copyFailed(1)
    \/ backupPruned(1)
    \/ dbClosed(1)
    \/ dbCloseFailed(1)
    \/ restoreCopied(1)
    \/ allDone(1)
    \/ allFailed(1)
    \/ tick

RoundTripSpec == RoundTripInit /\ [][RoundTripNext]_vars

\* -------------------------------------------------- backups in sequence

\* new DatabaseManager({ dbPath: 'store.db', backup: { enabled: true,
\* maxBackups } })
RetentionInit ==
    /\ PoolInit(0)
    /\ TaskInit(RetentionCalls)
    /\ db = 0
    /\ backupIntervalId = 0
    /\ timers = {}
    /\ nextTimer = 1
    /\ dbPath = "store.db"
    /\ backupEnabled = TRUE
    /\ maxBackups \in {0, 1, DefaultMaxBackups}
    /\ rows = EmptyBag
    /\ schemas = {}
    /\ backups = <<>>
    /\ clock = 1
    /\ options = NoOptions
    /\ writeQueue = NoQueue

\* The caller awaits init() and then backup(), time after time, each call
\* when the one before it has settled.
RetentionNext ==
    \/ task[1].calls = 0 /\ init(1)
    \/ task[1].calls > 0 /\ backup(1)
    \/ initializeOpened(1)
    \/ initializeFailed(1)
    \/ cleanupDone(1)
    \/ initInitialized(1)
    \/ initAcquired(1)
    \/ initSchemaReady(1)
    \/ execDone(1)
    \/ execFailed(1)
    \/ copyFinished(1)
    \/ copyFailed(1)
    \/ backupPruned(1)
    \/ tick

RetentionSpec == RetentionInit /\ [][RetentionNext]_vars

\* -------------------------------------------------------- the backup timer

\* The async call that runs the callback of the timer.
TimerTask == 2

\* performBackupWithErrorBoundry(), lines 87-93, called with this being
\* receiver: 'await this.backup()' calls the manager's backup() when this
\* is the manager, and throws a TypeError inside the try block when it is
\* anything else, which has no backup method.
performBackupWithErrorBoundry(p, receiver) ==
    /\ task[p].pc = <<>>
    /\ task[p].calls < MaxTicks
    /\ LET t == [Called(p, "performBackupWithErrorBoundry") EXCEPT
                    !.receiver = receiver,
                    !.pc = <<"performBackup_backup">>]
       IN IF receiver = "manager"
          THEN backupBody(p, t)
          ELSE Goes(p, Settled(t, Err(NotAFunctionError)))
    /\ UNCHANGED <<statementFrame, faults, storeVars>>

\* The interval of a running timer has passed.  setInterval was given the
\* method itself, this.performBackupWithErrorBoundry (line 99), not bound
\* to the manager: the timer calls it with this being the Timeout object.
intervalFired ==
    /\ timers # {}
    /\ performBackupWithErrorBoundry(TimerTask, "timeout")

\* backupFn.call(manager): the callback is called on the manager, as the
\* test of the backup interval does.
callbackCalled ==
    performBackupWithErrorBoundry(TimerTask, "manager")

\* new DatabaseManager({ dbPath: 'store.db', backup: { enabled: true,
\* maxBackups } })
TimerInit ==
    /\ PoolInit(0)
    /\ TaskInit(TimerCalls)
    /\ db = 0
    /\ backupIntervalId = 0
    /\ timers = {}
    /\ nextTimer = 1
    /\ dbPath = "store.db"
    /\ backupEnabled = TRUE
    /\ maxBackups \in {1, DefaultMaxBackups}
    /\ rows = EmptyBag
    /\ schemas = {}
    /\ backups = <<>>
    /\ clock = 1
    /\ options = NoOptions
    /\ writeQueue = NoQueue

\* One caller awaits init(), backup() and close(), in any order, while the
\* timer runs its callback.
TimerNext ==
    \/ init(1)
    \/ backup(1)
    \/ close(1)
    \/ intervalFired
    \/ callbackCalled
    \/ initializeOpened(1)
    \/ initializeFailed(1)
    \/ cleanupDone(1)
    \/ initInitialized(1)
    \/ initAcquired(1)
    \/ initSchemaReady(1)
    \/ execDone(1)
    \/ execFailed(1)
    \/ \E p \in {1, TimerTask} : copyFinished(p)
    \/ \E p \in {1, TimerTask} : copyFailed(p)
    \/ \E p \in {1, TimerTask} : backupPruned(p)
    \/ tick

TimerSpec == TimerInit /\ [][TimerNext]_vars

\* -------------------------------------------------------------- WriteQueue

\* What the methods of the write queue leave alone.
queueFrame ==
    <<poolVars, faults, callLimit, db, backupIntervalId, timers, nextTimer,
      dbPath, backupEnabled, maxBackups, rows, schemas, backups, clock,
      options>>

\* const result = queue.enqueue(operation), lines 173-192: the operation
\* is chained on this.queue, and this.queue becomes the promise of the
\* operation with its errors ignored.  The operation is not invoked in
\* the call, not even when this.queue is a resolved promise: the callback
\* of then() runs in a later microtask.
enqueue(p) ==
    /\ CanCall(p)
    /\ LET number == writeQueue.enqueued + 1
       IN /\ Goes(p, [Called(p, "enqueue") EXCEPT
                         !.operation = number,
                         !.after = writeQueue.queue,
                         !.pc = <<"enqueue_then">>])
          /\ writeQueue' = [writeQueue EXCEPT !.queue = number,
                                              !.enqueued = number]
    /\ UNCHANGED queueFrame

\* The operation of caller p is invoked though the one before it rejected,
\* and is given that one's error.
executeCalled_chained(p) ==
    /\ Top(p) = "enqueue_then"
    /\ task[p].after = 0 \/ task[p].after \in writeQueue.settled
    /\ IF \E q \in Tasks : /\ task[q].operation = task[p].after
                           /\ task[q].operation # 0
                           /\ task[q].ret.t = "err"
       THEN /\ Goes(p, [task[p] EXCEPT
                           !.pc = <<>>,
                           !.ret = Err(Error(<<"Operation failed">>))])
            /\ writeQueue' = [writeQueue EXCEPT
                                 !.settled = @ \cup {task[p].operation}]
       ELSE /\ Goes(p, [task[p] EXCEPT !.pc = <<"enqueue_operation">>])
            /\ writeQueue' = [writeQueue EXCEPT
                                 !.started = Append(@, task[p].operation)]
    /\ UNCHANGED queueFrame

\* The promise the operation of caller p was chained on has resolved,
\* lines 181-182: the operation is invoked.
executeCalled(p) ==
    /\ Top(p) = "enqueue_then"
    /\ task[p].after = 0 \/ task[p].after \in writeQueue.settled
    /\ Goes(p, [task[p] EXCEPT !.pc = <<"enqueue_operation">>])
    /\ writeQueue' = [writeQueue EXCEPT
                         !.started = Append(@, task[p].operation)]
    /\ UNCHANGED queueFrame

\* The operation of caller p resolves, and so does the promise enqueue()
\* returned.
executeResolved(p) ==
    /\ Top(p) = "enqueue_operation"
    /\ Goes(p, Settled([Popped(p) EXCEPT !.operationResult = ResultOf(p)],
                       OkResult(ResultOf(p))))
    /\ writeQueue' = [writeQueue EXCEPT
                         !.settled = @ \cup {task[p].operation}]
    /\ UNCHANGED queueFrame

\* The operation of caller p throws or rejects, lines 183-187: the catch
\* callback makes this.queue a resolved promise and throws the error
\* again, so the promise enqueue() returned rejects with it.
executeRejected(p) ==
    /\ Top(p) = "enqueue_operation"
    /\ \E error \in OperationErrors :
          Goes(p, Settled([Popped(p) EXCEPT !.operationError = error],
                          Err(error)))
    /\ writeQueue' = [writeQueue EXCEPT
                         !.queue = 0,
                         !.settled = @ \cup {task[p].operation}]
    /\ UNCHANGED queueFrame

\* new WriteQueue()
QueueInit ==
    /\ PoolInit(0)
    /\ TaskInit(QueueCalls)
    /\ DbIdle

\* The callers enqueue operations, which are invoked and settle.
QueueNext ==
    \E p \in Tasks :
        \/ enqueue(p)
        \/ executeCalled(p)
        \/ executeResolved(p)
        \/ executeRejected(p)

QueueSpec == QueueInit /\ [][QueueNext]_vars

\* Every operation that can be invoked is, and every operation that was
\* invoked settles.
FairQueueSpec ==
    /\ QueueSpec
    /\ \A p \in Tasks :
          /\ WF_vars(executeCalled(p))
          /\ WF_vars(executeResolved(p) \/ executeRejected(p))

\* ----------------------------------------------------------- soft deletion

\* { ...triple, _delete: flag }
Flagged(triple, flag) ==
    [subject |-> triple.subject, predicate |-> triple.predicate,
     object |-> triple.object, _delete |-> flag]

\* await graph.addTriple({ ...triple, _delete }, graph), lines 15-18, and
\* DatabaseManager.addTriples, lines 185-204: validateTriple reads the
\* subject, the predicate and the object of the triple, and the statement
\* is run with its subject, predicate and object and the graph; nothing
\* reads _delete.
GraphManager_addTripleFlagged(p) ==
    /\ CanCall(p)
    /\ \E triple \in SampleTriples, flag \in BOOLEAN, graph \in Graphs :
          LET t == [Called(p, "GraphManager_addTriple") EXCEPT
                       !.triples = <<Flagged(triple, flag)>>,
                       !.graph = graph]
          IN IF Validated[triple] # NoError
             THEN Goes(p, Settled(t, Err(Validated[triple])))
             ELSE addTripleBody(p, [t EXCEPT
                                       !.pc = <<"GraphManager_addTriple">>],
                                Flagged(triple, flag), graph)
    /\ UNCHANGED <<statementFrame, faults, storeVars>>

\* new GraphManager(new DatabaseManager({ dbPath }))
SoftDeleteInit ==
    /\ PoolInit(0)
    /\ TaskInit(SoftDeleteCalls)
    /\ db = 0
    /\ backupIntervalId = 0
    /\ timers = {}
    /\ nextTimer = 1
    /\ dbPath \in {":memory:", "store.db"}
    /\ backupEnabled = FALSE
    /\ maxBackups = DefaultMaxBackups
    /\ rows = EmptyBag
    /\ schemas = {}
    /\ backups = <<>>
    /\ clock = 1
    /\ options = NoOptions
    /\ writeQueue = NoQueue

\* One caller awaits init(), adds triples with and without the _delete
\* flag, and queries.
SoftDeleteNext ==
    \/ init(1)
    \/ GraphManager_addTriple(1)
    \/ GraphManager_addTripleFlagged(1)
    \/ query(1)
    \/ initializeOpened(1)
    \/ initializeFailed(1)
    \/ cleanupDone(1)
    \/ initInitialized(1)
    \/ initAcquired(1)
    \/ initSchemaReady(1)
    \/ execDone(1)
    \/ execFailed(1)
    \/ runInserted(1)
    \/ runRejected(1)
    \/ finalizeDone(1)
    \/ finalizeFailed(1)
    \/ allDone(1)
    \/ allFailed(1)

SoftDeleteSpec == SoftDeleteInit /\ [][SoftDeleteNext]_vars

\* ------------------------------------------ overlapping calls on a manager

\* The options objects a manager is constructed with: maxConnections is
\* the option of DatabaseManager's DatabaseOptions, maxPoolSize the one
\* the pool reads from the same object.
OptionSets ==
    [maxConnections : {0, SmallCapacity}, maxPoolSize : {0, SmallCapacity}]

\* new DatabaseManager(options), lines 31-40: the pool is constructed from
\* the options object the manager was given.
OverlapInit ==
    /\ options \in OptionSets
    /\ PoolInit(options.maxPoolSize)
    /\ TaskInit(OverlapCalls)
    /\ db = 0
    /\ backupIntervalId = 0
    /\ timers = {}
    /\ nextTimer = 1
    /\ dbPath = "store.db"
    /\ backupEnabled \in BOOLEAN
    /\ maxBackups = DefaultMaxBackups
    /\ rows = EmptyBag
    /\ schemas = {}
    /\ backups = <<>>
    /\ clock = 1
    /\ writeQueue = NoQueue

\* Two callers call init() and close() on one manager, and a call may be
\* issued while a call of the other caller is suspended.
OverlapNext ==
    \E p \in Callers :
        \/ init(p)
        \/ close(p)
        \/ initializeOpened(p)
        \/ initializeFailed(p)
        \/ cleanupDone(p)
        \/ initInitialized(p)
        \/ initAcquired(p)
        \/ initSchemaReady(p)
        \/ execDone(p)
        \/ execFailed(p)

OverlapSpec == OverlapInit /\ [][OverlapNext]_vars

\* ------------------------------------------------------------ the pool bound

\* C1: the connections that are open at one time, idle or handed out, are
\* never more than the configured maximum.
C1_PoolBound == Cardinality(openConnections) <= maxConnections

\* Caller p issues a call of the kind k in this step.
Calls(p, k) ==
    /\ task'[p].calls = task[p].calls + 1
    /\ task'[p].kind = k

\* C2: acquire() on an initialized pool with no idle connection and as many
\* connections open as the configured maximum fails at once with 'No
\* available connections in the pool': it opens nothing and waits for
\* nothing.
C2_AcquireAtCapacity ==
    [][\A p \in Tasks :
          (/\ Calls(p, "acquire")
           /\ initialized
           /\ availableConnections = <<>>
           /\ Cardinality(openConnections) = maxConnections)
          => /\ task'[p].pc = <<>>
             /\ task'[p].ret = Err(noAvailableError)
             /\ openConnections' = openConnections]_vars

\* ------------------------------------------------------ exclusive ownership

\* The connections caller p holds: those it keeps from acquire(), and the
\* one its withConnection() operation is running on.
Owned(p) ==
    task[p].held \cup
        (IF Top(p) = "withConnection_operation"
         THEN {task[p].connection} ELSE {})

Alone(p) ==
    /\ task[p].pc = <<>>
    /\ task[p].othersAtCall >= 0
    /\ task[p].othersAtCall = CallsOf(Tasks \ {p})

\* A withConnection() call on an initialized pool has settled, and no other
\* call overlapped it.
SettledAlone(p) ==
    /\ task[p].kind = "withConnection"
    /\ task[p].initializedAtCall
    /\ Alone(p)

OperationRan(p) ==
    /\ task[p].kind = "withConnection"
    /\ task[p].pc = <<>>
    /\ task[p].connection # 0

\* C5: when the operation and the release both fail, withConnection()
\* rejects with the operation's error; when only the release fails, with a
\* DatabaseError 'Failed to close connection: ...'; when only the operation
\* fails, with an error that carries the operation's message.
C5_ErrorPriority ==
    \A p \in Tasks :
        OperationRan(p) =>
            LET opError == task[p].operationError
                relError == task[p].releaseError
                got == task[p].ret
            IN /\ (opError # NoError /\ relError # NoError)
                      => got = Err(opError)
               /\ (opError = NoError /\ relError # NoError)
                      => /\ got.t = "err"
                         /\ got.e.name = "DatabaseError"
                         /\ Head(got.e.message) = "Failed to close connection"
                         /\ Last(got.e.message) = Last(relError.message)
               /\ (opError # NoError /\ relError = NoError)
                      => /\ got.t = "err"
                         /\ got.e.message = opError.message

\* The operation and the release of a withConnection() call have both
\* failed.
C5_Witness ==
    \E p \in Tasks :
        /\ OperationRan(p)
        /\ task[p].operationError # NoError
        /\ task[p].releaseError # NoError

\* ------------------------------------------------- concurrent withConnection

\* The withConnection() call of caller p has settled.
Resolved(p) ==
    /\ task[p].calls > 0
    /\ task[p].pc = <<>>

GuardedCalls ==
    {"addTriple", "addTriples", "query", "getTriples", "deleteGraph",
     "clearAll", "setupSchema", "restoreFromBackup"}

\* C7: before init() and after close() this.db is null (it is null when the
\* manager is made, only a step of an init() call sets it, and it is null
\* once close() has settled), and addTriple, addTriples, query, getTriples,
\* deleteGraph, clearAll, setupSchema and restoreFromBackup called while
\* this.db is null fail at once with DatabaseError 'Database not
\* initialized' and change neither the stored triples nor the state of the
\* manager and of its pool.
C7_NotInitialized ==
    /\ [](\A p \in Tasks :
             /\ task[p].kind = "close" /\ task[p].pc = <<>> => db = 0
             /\ CallsOf(Tasks) = 0 => db = 0)
    /\ [][db = 0 /\ db' # 0 =>
             \E p \in Tasks : task[p].kind \in {"init", "GraphManager_init"}]_vars
    /\ [][\A p \in Tasks, k \in GuardedCalls :
             Calls(p, k) /\ db = 0 =>
                 /\ task'[p].pc = <<>>
                 /\ task'[p].ret.t = "err"
                 /\ task'[p].ret.e = notInitializedError
                 /\ UNCHANGED <<rows, schemas, backups, db, backupIntervalId,
                                timers, nextTimer, poolVars>>]_vars

\* addTriples() has failed on a manager that was closed after it had stored
\* triples.
C7_Witness ==
    /\ task[1].kind = "addTriples"
    /\ task[1].pc = <<>>
    /\ task[1].dbAtCall = 0
    /\ task[1].ret.e = notInitializedError
    /\ rows # EmptyBag
    /\ initialized

\* C8: init() called while this.db is set (as it is on a manager that is
\* Ready) resolves at once: it acquires no connection, starts no timer,
\* and leaves this.db, the pool and the stored triples as they are.
C8_InitAgain ==
    [][\A p \in Tasks :
          Calls(p, "init") /\ db # 0 =>
              /\ task'[p].pc = <<>>
              /\ task'[p].ret.t = "ok"
              /\ UNCHANGED <<db, backupIntervalId, timers, nextTimer,
                             poolVars, rows, schemas, backups>>]_vars

\* A second init() has resolved on a manager whose first init() had
\* started the backup timer.
C8_Witness ==
    /\ task[1].kind = "init"
    /\ task[1].pc = <<>>
    /\ task[1].calls >= 2
    /\ task[1].dbAtCall # 0
    /\ task[1].ret.t = "ok"
    /\ db = task[1].dbAtCall
    /\ timers = {backupIntervalId}
    /\ nextTimer = 2

\* C9: close() resolves at once, whatever the state of the manager.  With
\* this.db set it pushes this.db on the idle set of the pool, and in every
\* case it leaves this.db null and no timer running; with this.db null (as
\* after a close()) it changes nothing of the pool.
C9_Close ==
    [][\A p \in Tasks :
          Calls(p, "close") =>
              /\ task'[p].pc = <<>>
              /\ task'[p].ret.t = "ok"
              /\ db' = 0
              /\ backupIntervalId' = 0
              /\ timers' = {}
              /\ IF db # 0
                 THEN availableConnections' = Append(availableConnections, db)
                 ELSE UNCHANGED availableConnections
              /\ UNCHANGED <<openConnections, nextConn, initialized,
                             maxConnections, rows, schemas, backups>>]_vars

\* A second close() has resolved on a manager whose init() had started the
\* backup timer: the three connections of the pool are idle, each once.
C9_Witness ==
    /\ task[1].kind = "close"
    /\ task[1].pc = <<>>
    /\ task[1].dbAtCall = 0
    /\ task[1].ret.t = "ok"
    /\ task[1].calls = 3
    /\ nextTimer = 2
    /\ timers = {}
    /\ Len(availableConnections) = InitialConnections
    /\ Cardinality(Range(availableConnections)) = InitialConnections

\* C10: GraphManager.addTriple and GraphManager.addTriples called with a
\* triple that validateTriple rejects fail at once with a ValidationError:
\* no statement is prepared or run, and the stored triples are unchanged,
\* whatever valid triples come earlier in the batch.
C10_ValidationFirst ==
    [][\A p \in Tasks, k \in {"GraphManager_addTriple",
                             "GraphManager_addTriples"} :
          /\ Calls(p, k)
          /\ \E i \in 1..Len(task'[p].triples) :
                Validated[task'[p].triples[i]] # NoError
          => /\ task'[p].pc = <<>>
             /\ task'[p].ret.t = "err"
             /\ task'[p].ret.e.name = "ValidationError"
             /\ task'[p].connection = 0
             /\ UNCHANGED <<rows, schemas, backups, db, poolVars>>]_vars

\* addTriples has failed on a batch of a valid triple that is not stored
\* and an invalid one, on a manager whose database would have stored the
\* first.
C10_Witness ==
    /\ task[1].kind = "GraphManager_addTriples"
    /\ task[1].pc = <<>>
    /\ Len(task[1].triples) = 2
    /\ Validated[task[1].triples[1]] = NoError
    /\ Validated[task[1].triples[2]] # NoError
    /\ task[1].ret.e.name = "ValidationError"
    /\ db \in openConnections
    /\ Store(db) \in schemas
    /\ ~BagIn(Row(db, task[1].triples[1], task[1].graph), rows)

\* ------------------------------------------------------- the triples table

\* The rows that caller p's addTriples call has inserted: those of the
\* triples that the loop has passed.  stmt.run stores a row only when the
\* table does not hold it, so these rows were not in the table when the
\* call began.
InsertedByCall(p) ==
    {Row(task[p].connection, task[p].triples[i], task[p].graph) :
        i \in 1..(Len(task[p].triples) - Len(task[p].batch))}

\* C11: once an addTriples call has failed because the engine rejected one
\* of its triples, the table holds none of the rows the call has inserted:
\* it is the table of before the call.
C11_NoPartialAdd ==
    \A p \in Tasks :
        /\ task[p].kind = "addTriples"
        /\ task[p].pc = <<>>
        /\ task[p].ret.t = "err"
        /\ task[p].operationError # NoError
        => \A row \in InsertedByCall(p) : ~BagIn(row, rows)

\* C12: the table of every database holds at most one row for a subject,
\* predicate, object and graph, and query and getTriples resolve with every
\* row they return once.
C12_OneRowPerKey ==
    /\ \A row \in BagToSet(rows) : CopiesIn(row, rows) = 1
    /\ \A p \in Tasks :
          task[p].kind \in {"query", "getTriples"} /\ task[p].pc = <<>> =>
              \A row \in BagToSet(task[p].result) :
                  CopiesIn(row, task[p].result) = 1

\* addTriples has been called with the same triple twice in its batch: the
\* second insert was rejected, and the table holds the row once.
C12_Witness ==
    /\ task[1].kind = "addTriples"
    /\ task[1].pc = <<>>
    /\ Len(task[1].triples) = 2
    /\ task[1].triples[1] = task[1].triples[2]
    /\ task[1].ret.e = addTripleError(ConstraintError)
    /\ CopiesIn(Row(task[1].connection, task[1].triples[1], task[1].graph),
                rows) = 1

\* C13: an addTriple or addTriples call on an open connection whose
\* database has the table, in a run where the engine has reported no error
\* of its own, resolves, and the table holds every triple of the call
\* afterwards: a triple that is stored already is no reason to fail.
C13_DuplicateNoOp ==
    \A p \in Tasks :
        /\ task[p].kind \in {"addTriple", "addTriples"}
        /\ task[p].pc = <<>>
        /\ task[p].dbAtCall # 0
        /\ task[p].connection \in openConnections
        /\ Store(task[p].connection) \in schemas
        /\ faults = 0
        => /\ task[p].ret.t = "ok"
           /\ \A i \in 1..Len(task[p].triples) :
                 BagIn(Row(task[p].connection, task[p].triples[i],
                           task[p].graph), rows)

\* Caller p's query or getTriples call has resolved.
Answered(p, k) ==
    /\ task[p].kind = k
    /\ task[p].pc = <<>>
    /\ task[p].ret.t = "ok"

\* The rows of the table that caller p's call selected from, in graph.
TableOf(p, graph) ==
    {row \in BagToSet(rows) :
        row.store = Store(task[p].connection) /\ row.graph = graph}

\* The row has the subject, predicate and object that the pattern gives;
\* one that is not given matches every row.
MatchesGiven(row, pattern) ==
    /\ pattern.subject # Undefined => row.subject = pattern.subject
    /\ pattern.predicate # Undefined => row.predicate = pattern.predicate
    /\ pattern.object # Undefined => row.object = pattern.object

\* C14: graphs are isolated.  query(s, p, o, graph) resolves with rows of
\* that graph only, each of them stored in that graph, and with every row
\* of the graph that has the subject, predicate and object given;
\* getTriples(graph) resolves with the triples stored in that graph and
\* with no other.  So a triple stored only in another graph is not
\* returned.
C14_GraphIsolation ==
    \A p \in Tasks :
        /\ Answered(p, "query") =>
              /\ \A row \in BagToSet(task[p].result) :
                    /\ row.graph = task[p].graph
                    /\ \E stored \in TableOf(p, task[p].graph) :
                          Columns(stored) = row
              /\ \A stored \in TableOf(p, task[p].graph) :
                    MatchesGiven(stored, task[p].pattern) =>
                        BagIn(Columns(stored), task[p].result)
        /\ Answered(p, "getTriples") =>
              BagToSet(task[p].result) =
                  {Triple(stored.subject, stored.predicate, stored.object) :
                      stored \in TableOf(p, task[p].graph)}

\* query has resolved with no row for graph 'g' while the table holds a row
\* of graph 'default' and none of graph 'g'.
C14_Witness ==
    /\ Answered(1, "query")
    /\ task[1].graph = "g"
    /\ task[1].result = EmptyBag
    /\ TableOf(1, "default") # {}
    /\ TableOf(1, "g") = {}

\* C15: query(s, p, o, g) resolves with exactly the stored rows whose graph
\* is g and whose subject, predicate and object are each of s, p, o that
\* the caller gave; only an argument that is not given matches every row.
C15_ExactFilter ==
    \A p \in Tasks :
        Answered(p, "query") =>
            BagToSet(task[p].result) =
                {Columns(stored) :
                    stored \in {row \in TableOf(p, task[p].graph) :
                                   MatchesGiven(row, task[p].pattern)}}

\* C16: queryGraphs() resolves with exactly the graphs that have a stored
\* triple: a graph a triple was inserted into is among them, and a graph
\* whose last triple was removed is not.
C16_QueryGraphs ==
    \A p \in Tasks :
        Answered(p, "GraphManager_queryGraphs") =>
            task[p].graphs =
                {row.graph : row \in TableOf(p, "default") \cup TableOf(p, "g")}

\* Caller p's call of the kind k resolves in this step.
Resolves(p, k) ==
    /\ task[p].pc # <<>>
    /\ task'[p].pc = <<>>
    /\ task'[p].kind = k
    /\ task'[p].ret.t = "ok"

\* C17: when deleteGraph(g) resolves, the table has lost every row whose
\* graph is g and every row of every other graph is as it was; when
\* clearAll() resolves, the table is empty whatever graphs it held.  The
\* table is that of the database the manager's connection is open on.
C17_Delete ==
    [][\A p \in Tasks :
          LET store == Store(task[p].connection)
              Table(B, Keep(_)) ==
                  Where(B, {row \in DOMAIN B : row.store = store /\ Keep(row)})
          IN /\ Resolves(p, "deleteGraph") =>
                   /\ Table(rows', LAMBDA row : row.graph = task[p].graph)
                          = EmptyBag
                   /\ Table(rows', LAMBDA row : row.graph # task[p].graph)
                          = Table(rows, LAMBDA row : row.graph # task[p].graph)
             /\ Resolves(p, "clearAll") =>
                   Table(rows', LAMBDA row : TRUE) = EmptyBag
             /\ Resolves(p, "deleteGraph") \/ Resolves(p, "clearAll") =>
                   Where(rows', {row \in DOMAIN rows' : row.store # store})
                       = Where(rows,
                               {row \in DOMAIN rows : row.store # store})]_vars

\* deleteGraph('g') has resolved on a table that held a row of 'g' when it
\* was called and holds a row of 'default' now.
C17_Witness ==
    /\ Answered(1, "deleteGraph")
    /\ task[1].graph = "g"
    /\ \E row \in BagToSet(task[1].rowsAtCall) :
          row.graph = "g" /\ row.store = Store(task[1].connection)
    /\ TableOf(1, "g") = {}
    /\ TableOf(1, "default") # {}

\* The query of the round trip has settled, and the engine reported no
\* error of its own in the run: every call before the query has resolved.
RoundTripDone ==
    /\ task[1].calls = RoundTripCalls
    /\ task[1].kind = "query"
    /\ task[1].pc = <<>>
    /\ faults = 0

\* C18: after init(), addTriple(T), backup(), addTriple(T2) and
\* restoreFromBackup(newest file) on a file with backups enabled, a query
\* resolves, and with rows of the backup only: it has every row of the
\* backup that is in the graph asked for and has the subject, predicate
\* and object given (T), and no row that the backup does not have (T2).
C18_RoundTrip ==
    RoundTripDone =>
        /\ task[1].ret.t = "ok"
        /\ \A row \in BagToSet(task[1].result) :
              BagIn(row, Last(backups).rows)
        /\ \A row \in BagToSet(Last(backups).rows) :
              row.graph = task[1].graph /\ MatchesGiven(row, task[1].pattern)
                  => BagIn(row, task[1].result)

\* C19: once restoreFromBackup has resolved, the manager is ready on the
\* restored file: the connection it had is closed, and this.db is an open
\* connection of an initialized pool on a database that has the table.
C19_RestoreReady ==
    \A p \in Tasks :
        Answered(p, "restoreFromBackup") =>
            /\ task[p].dbAtCall \notin openConnections
            /\ initialized
            /\ db # 0
            /\ db \in openConnections
            /\ Store(db) \in schemas

\* C20: after every backup() that resolves with maxBackups = N >= 1, the
\* backup directory holds at most N files, and they are the newest: the
\* file of this call is among them and they are in the order of their
\* names.  After init() and eight backup() calls with N = 5 it holds
\* exactly 5 files.  (Runs in which the engine reported no error.)
C20_Retention ==
    /\ task[1].kind = "backup"
    /\ task[1].pc = <<>>
    /\ task[1].ret.t = "ok"
    /\ faults = 0
    /\ maxBackups >= 1
    => /\ Len(backups) <= maxBackups
       /\ backups # <<>> /\ Last(backups).name = task[1].timestamp
       /\ \A i, j \in DOMAIN backups :
             i < j => backups[i].name < backups[j].name
       /\ task[1].calls = RetentionCalls /\ maxBackups = DefaultMaxBackups
             => Len(backups) = DefaultMaxBackups

\* The names of the files of a backup directory.
Names(files) == {file.name : file \in Range(files)}

\* C21: when the copy of backup() fails, on the read side or on the write
\* side, the call rejects with a DatabaseError that says which side failed
\* and carries the message of the stream's error; the database file (the
\* rows and the table of every database) is as it was; and every file that
\* was in the backup directory is still there, with what it held unless it
\* has the name this call writes to.
C21_CopyFailure ==
    [][\A p \in Tasks :
          /\ task[p].kind = "backup"
          /\ Top(p) = "copy"
          /\ task'[p].pc = <<>>
          /\ task'[p].ret.t = "err"
          => /\ task'[p].ret.e \in {backupReadError(FileReadError),
                                    backupWriteError(FileWriteError)}
             /\ task'[p].ret.e.name = "DatabaseError"
             /\ rows' = rows
             /\ schemas' = schemas
             /\ Names(backups) \subseteq Names(backups')
             /\ \A file \in Range(backups) :
                   file.name # task[p].timestamp => file \in Range(backups')
      ]_vars

\* A backup() call has rejected with the write error while the backup
\* directory holds a file of an earlier call.
C21_Witness ==
    /\ task[1].kind = "backup"
    /\ task[1].pc = <<>>
    /\ task[1].ret = Err(backupWriteError(FileWriteError))
    /\ \E file \in Range(backups) :
          file.name # task[1].timestamp /\ file.schema

\* Caller p issues a call of the kind k in this step.
Calling(p, k) ==
    /\ task'[p].calls = task[p].calls + 1
    /\ task'[p].kind = k

\* C22: a backup() call on a manager whose backups are disabled, whose
\* target is ':memory:' or that is not initialized resolves in its first
\* step and touches no file: the database and the backup directory are as
\* they were.  And no backup timer runs, and this.backupIntervalId is not
\* set, on a manager whose backups are disabled or whose target is
\* ':memory:'.
C22_NoBackup ==
    /\ [](~backupEnabled \/ dbPath = ":memory:"
             => timers = {} /\ backupIntervalId = 0)
    /\ [][\A p \in Tasks :
             /\ Calling(p, "backup")
             /\ db = 0 \/ ~backupEnabled \/ dbPath = ":memory:"
             => /\ task'[p].pc = <<>>
                /\ task'[p].ret = Ok
                /\ UNCHANGED <<rows, schemas, backups, db, poolVars>>]_vars

\* backup() has resolved on an initialized manager of a file with backups
\* disabled: no file is in the backup directory, and no timer runs.
C22_Witness ==
    /\ task[1].kind = "backup"
    /\ task[1].pc = <<>>
    /\ task[1].ret = Ok
    /\ task[1].dbAtCall # 0
    /\ dbPath = "store.db"
    /\ ~backupEnabled
    /\ backups = <<>>
    /\ timers = {}

\* Caller p's call of the kind k settles in this step.
Settles(p, k) ==
    /\ task'[p].kind = k
    /\ task'[p].pc = <<>>
    /\ task[p].pc # <<>> \/ Calling(p, k)

\* C23: a run of the timer's callback whose backup fails resolves all the
\* same: it never rejects, whatever was thrown or rejected in it, and the
\* error is passed to console.error.  It leaves the timer running, and a
\* running timer is only ever stopped by a close() call.
C23_ErrorBoundary ==
    /\ [](\A p \in Tasks :
             task[p].kind = "performBackupWithErrorBoundry"
                 => task[p].ret.t # "err")
    /\ [][\A p \in Tasks :
             Settles(p, "performBackupWithErrorBoundry")
                 => /\ task'[p].ret = Ok
                    /\ timers' = timers
                    /\ backupIntervalId' = backupIntervalId]_vars
    /\ [][timers \subseteq timers' \/ Calling(1, "close")]_vars

\* The timer has run its callback twice; the backup of the second run
\* failed, the run resolved, and the timer is still running.
C23_Witness ==
    /\ task[TimerTask].kind = "performBackupWithErrorBoundry"
    /\ task[TimerTask].receiver = "timeout"
    /\ task[TimerTask].calls = MaxTicks
    /\ task[TimerTask].pc = <<>>
    /\ task[TimerTask].logged # NoError
    /\ task[TimerTask].ret = Ok
    /\ backupIntervalId \in timers

\* C24: on an initialized manager of a file with backups enabled, a run
\* of the timer's callback runs backup() on the manager: the database file
\* is being copied when the callback has come to its await.  And no run of
\* the callback starts a copy once close() has stopped the timer.
C24_ScheduledBackup ==
    [][/\ /\ Calling(TimerTask, "performBackupWithErrorBoundry")
          /\ task'[TimerTask].receiver = "timeout"
          /\ db # 0
          => task'[TimerTask].pc = <<"performBackup_backup", "backup_copy",
                                     "copy">>
       /\ /\ Calling(TimerTask, "performBackupWithErrorBoundry")
          /\ task'[TimerTask].receiver = "timeout"
          => timers # {}]_vars

\* The errors of the engine that the model has.
EngineErrors ==
    {EngineIOError, EngineClosedError, NoTableError, ConstraintError}

\* C25: a call of setupSchema, addTriple, addTriples, query, getTriples,
\* deleteGraph or clearAll that the engine fails rejects with a
\* DatabaseError whose message ends with the message of the engine's
\* error; it never rejects with the engine's error itself.
C25_WrappedErrors ==
    \A p \in Tasks :
        /\ task[p].kind \in {"setupSchema", "addTriple", "addTriples", "query",
                             "getTriples", "deleteGraph", "clearAll"}
        /\ task[p].pc = <<>>
        /\ task[p].ret.t = "err"
        => /\ task[p].ret.e.name = "DatabaseError"
           /\ task[p].ret.e \notin EngineErrors
           /\ task[p].ret.e # notInitializedError =>
                 \E error \in EngineErrors :
                     /\ Len(task[p].ret.e.message) > Len(error.message)
                     /\ SubSeq(task[p].ret.e.message,
                               Len(task[p].ret.e.message)
                                   - Len(error.message) + 1,
                               Len(task[p].ret.e.message)) = error.message

\* The operations of the write queue that are in progress: invoked, and
\* not settled.
InProgress == {p \in Tasks : Top(p) = "enqueue_operation"}

\* C26: the operations passed to enqueue are invoked in the order they
\* were enqueued in; when one is invoked, every operation enqueued before
\* it has settled; and no two of them are in progress at a time.
C26_InSequence ==
    /\ \A i, j \in DOMAIN writeQueue.started :
          i < j => writeQueue.started[i] < writeQueue.started[j]
    /\ \A p \in InProgress :
          \A number \in 1..(task[p].operation - 1) :
              number \in writeQueue.settled
    /\ Cardinality(InProgress) <= 1

\* Caller p's enqueue call has settled.
Dequeued(p) ==
    /\ task[p].kind = "enqueue"
    /\ task[p].pc = <<>>

\* C27: an operation that rejects gives its error to the promise of its
\* own enqueue call and to no other, and holds up no other operation.
\* Every enqueue call that has settled had its operation invoked, once,
\* and settled with what that operation settled with: its value, or its
\* error.  No operation is invoked twice.  And every enqueue call settles,
\* whatever the operations before it did.
C27_ErrorsDoNotBlock ==
    /\ [](\A i, j \in DOMAIN writeQueue.started :
             i # j => writeQueue.started[i] # writeQueue.started[j])
    /\ [](\A p \in Tasks :
             Dequeued(p) =>
                 /\ \E i \in DOMAIN writeQueue.started :
                       writeQueue.started[i] = task[p].operation
                 /\ task[p].ret = IF task[p].operationError # NoError
                                  THEN Err(task[p].operationError)
                                  ELSE OkResult(task[p].operationResult)
                 /\ task[p].operationError = NoError
                       => task[p].operationResult = ResultOf(p))
    /\ \A p \in Tasks :
          (task[p].kind = "enqueue" /\ task[p].pc # <<>>) ~> Dequeued(p)

\* The first operation rejected, and the second, enqueued while the first
\* was in the queue, resolved with its own value.
C27_Witness ==
    /\ Dequeued(1)
    /\ task[1].operation = 1
    /\ task[1].ret.t = "err"
    /\ Dequeued(2)
    /\ task[2].operation = 2
    /\ task[2].after = 1
    /\ task[2].ret = OkResult(ResultOf(2))

\* C28: a triple passed to addTriple with _delete = true is retracted and
\* not inserted: once the call has resolved, the table does not hold the
\* triple in that graph, so that no query returns it.
C28_SoftDelete ==
    \A p \in Tasks :
        /\ task[p].kind = "GraphManager_addTriple"
        /\ task[p].pc = <<>>
        /\ task[p].ret.t = "ok"
        /\ "_delete" \in DOMAIN task[p].triples[1]
        /\ task[p].triples[1]._delete
        => ~BagIn(Row(task[p].connection, task[p].triples[1], task[p].graph),
                  rows)

\* C29: once close() has returned, no connection that the store opened is
\* open: not the one the manager held, and none of the idle set of its
\* pool.
C29_AllClosed ==
    \A p \in Tasks :
        /\ task[p].kind = "close"
        /\ task[p].pc = <<>>
        /\ task[p].dbAtCall # 0
        => /\ task[p].dbAtCall \notin openConnections
           /\ Range(availableConnections) \cap openConnections = {}

\* The initialize() that caller p waits in resolves in this step.
InitializeResolves(p) ==
    /\ Top(p) = "initialize_all"
    /\ task'[p].pc # task[p].pc
    /\ task'[p].pc = <<>> \/ Last(task'[p].pc) # "cleanup_all"

\* The connections that this step opens.
Opened == openConnections' \ openConnections

\* C30: an initialize() that resolves on a pool that was not initialized
\* has opened exactly min(3, maximum) connections, all of them are in the
\* idle set and the pool is marked initialized; an initialize() called on
\* an initialized pool returns at once, and no connection is opened,
\* closed, added to or taken from the idle set.
C30_Initialize ==
    [][\A p \in Tasks :
          /\ InitializeResolves(p)
                => /\ Cardinality(Opened) = Min(3, maxConnections)
                   /\ Opened \subseteq Range(availableConnections')
                   /\ Len(availableConnections')
                          = Len(availableConnections) + Cardinality(Opened)
                   /\ openConnections \subseteq openConnections'
                   /\ initialized'
          /\ /\ initialized
             /\ task'[p].calls = task[p].calls + 1
             /\ task'[p].kind = "initialize"
             => /\ task'[p].pc = <<>>
                /\ task'[p].ret = Ok
                /\ UNCHANGED poolVars]_vars

\* A second initialize() has returned on a pool of maximum four that the
\* first one initialized with three connections.
C30_Witness ==
    /\ task[1].kind = "initialize"
    /\ task[1].calls = 2
    /\ task[1].pc = <<>>
    /\ task[1].initializedAtCall
    /\ maxConnections = 4
    /\ Len(availableConnections) = 3
    /\ openConnections = Range(availableConnections)
    /\ initialized

\* ------------------------------------------------------- failed initialize

\* C31: an initialize() that fails because an eager connection did not open
\* rejects with a DatabaseError and leaves the pool uninitialized with an
\* empty idle set, and every connection that did open during the call has
\* been closed: the only handles still open are those the caller holds.
C31_FailedInitialize ==
    \A p \in Tasks :
        /\ task[p].kind = "initialize"
        /\ task[p].pc = <<>>
        /\ task[p].ret.t = "err"
        => /\ task[p].ret.e.name = "DatabaseError"
           /\ ~initialized
           /\ availableConnections = <<>>
           /\ openConnections \subseteq task[p].held

\* C32: in every reachable state the idle set holds at most the maximum of
\* connections the pool was constructed with.
C32_IdleWithinMaximum == Len(availableConnections) <= maxConnections

\* ------------------------------------------------------- close and release

\* close() rejects because this.pool.release(this.db) failed.
closeError ==
    DatabaseError(<<"Failed to close database">> \o closeConnectionError.message)

\* C33: a close() whose release of the manager's connection failed (the
\* idle set was full, so that release had to close the handle, and the
\* handle is still open) has rejected with the DatabaseError 'Failed to
\* close database: ...'.
C33_CloseReportsRelease ==
    \A p \in Tasks :
        /\ task[p].kind = "close"
        /\ task[p].pc = <<>>
        /\ task[p].dbAtCall # 0
        /\ task[p].idleAtCall >= maxConnections
        /\ task[p].dbAtCall \in openConnections
        => task[p].ret = Err(closeError)

\* The capacity the options ask for: maxConnections, 10 when it is omitted.
Capacity(o) ==
    IF o.maxConnections = 0 THEN DefaultMaxConnections ELSE o.maxConnections

\* C34: the capacity that the pool of an initialized manager enforces, the
\* maximum acquire() and release() compare the idle set with, is the
\* maxConnections value of the manager's options, 10 when it is omitted;
\* stated for options that hold nothing but what DatabaseManager's
\* DatabaseOptions declares.
C34_ConfiguredCapacity ==
    db # 0 /\ options.maxPoolSize = 0 => maxConnections = Capacity(options)

\* C35: every connection of the idle set is open, and the connection an
\* init() that has just resolved got from acquire() is open.
C35_IdleConnectionsOpen ==
    /\ Range(availableConnections) \subseteq openConnections
    /\ \A p \in Tasks :
          /\ task[p].kind = "init"
          /\ task[p].pc = <<>>
          /\ task[p].ret = Ok
          /\ task[p].dbAtCall = 0
          => db \in openConnections

\* C36: an init() that failed after acquire() gave it a connection leaves
\* the manager uninitialized: this.db is not set, so that operations fail
\* with 'Database not initialized' and a later init() initializes again;
\* the connection it had acquired is idle again, and no backup timer runs.
C36_FailedInitUninitialized ==
    \A p \in Tasks :
        /\ task[p].kind = "init"
        /\ task[p].pc = <<>>
        /\ task[p].ret.t = "err"
        /\ task[p].dbAtCall = 0
        /\ task[p].connection # 0
        => /\ db = 0
           /\ timers = {}
           /\ task[p].connection \in Range(availableConnections)

\* Caller p called close() on the initialized manager when no call was
\* suspended, as its second call, and no call was issued since; the other
\* caller has called init() once, and it resolved.
ClosedAfterInits(p) ==
    /\ task[p].kind = "close"
    /\ task[p].calls = 2
    /\ task[p].pc = <<>>
    /\ task[p].dbAtCall # 0
    /\ task[p].othersAtCall = CallsOf(Tasks \ {p})
    /\ \A q \in Callers \ {p} : /\ task[q].kind = "init"
                                 /\ task[q].calls = 1
                                 /\ task[q].ret = Ok
    /\ faults = 0

\* C37: once a close() has followed the init() calls of two callers,
\* overlapping or not, nothing the init() calls set up is left: every open
\* connection is in the idle set again, and no backup timer runs.
C37_OverlappingInit ==
    \A p \in Callers :
        ClosedAfterInits(p)
            => /\ openConnections \subseteq Range(availableConnections)
               /\ timers = {}


\* ----------------------------------------------------------------- backups

\* C38: when the copy of a backup() fails, the backup directory holds the
\* files of the same names as before the copy began: the file the call
\* was writing is not left there.
C38_NoPartialSnapshot ==
    [][\A p \in Tasks :
          /\ task[p].kind = "backup"
          /\ Top(p) = "copy"
          /\ task'[p].pc = <<>>
          /\ task'[p].ret.t = "err"
          => Names(backups') = Names(backups)
      ]_vars

\* C40: after every backup() that resolves on an initialized manager with
\* maxBackups = N, N = 0 included, the backup directory holds at most N
\* files.  (Runs in which the engine reported no error.)
C40_AtMostMaxBackups ==
    /\ task[1].kind = "backup"
    /\ task[1].pc = <<>>
    /\ task[1].ret = Ok
    /\ task[1].dbAtCall # 0
    /\ faults = 0
    => Len(backups) <= maxBackups

\* ------------------------------------------- withConnection and undefined

\* withConnection(), lines 145-147.
noResultError ==
    DatabaseError(<<"Operation failed without returning a result">>)

\* What withConnection() settles with when its operation resolved with r.
ResultFor(r) == IF r = 0 THEN Err(noResultError) ELSE OkResult(r)

OperationResolved(p) ==
    /\ task[p].kind = "withConnection"
    /\ task[p].pc # <<>>
    /\ task'[p].pc = <<>>
    /\ task'[p].connection # 0
    /\ task'[p].operationError = NoError

====
